---- MODULE Spec2Model ----
(***************************************************************************)
(* A model of the CLI agent orchestrator core: the inbox scheduler         *)
(* (services/inbox_service.py), the O(1) log reader                        *)
(* (utils/log_scheduler.py), the provider manager (providers/manager.py)   *)
(* and the codex provider state machine (providers/codex.py).              *)
(*                                                                         *)
(* The metadata store (clients/database.py), the terminal service          *)
(* (services/terminal_service.py) and the multiplexer client               *)
(* (clients/tmux.py) are not part of the source tree under study; their    *)
(* operations are modelled from the specification and are marked so.       *)
(***************************************************************************)
EXTENDS Integers, Sequences, FiniteSets

\* ------------------------------------------------------------------ bounds
\* Most messages ever inserted into the inbox table.
MaxMsgs == 2
\* Most lines the agents write to their panes (and so to their log files),
\* all terminals together.
MaxOut == 2
\* The store's status write can fail for a message while the message has
\* been sent at most this often.
MaxWriteFails == 1

\* Most modification reports of a log that come without a new line in a run.
MaxTouch == 2

\* The terminal ids messages are addressed to, the ids among them that
\* create_terminal allocates (the others name no terminal), and the watcher
\* threads that run on_modified callbacks.
TIDs == {"t1", "t2"}
Terminals == {"t1"}
Handlers == {"h1", "h2"}

\* ------------------------------------------------------- program constants
\* O1LogReader(buffer_lines=100): capacity of the global reader's buffers.
DefaultBufferLines == 100
\* codex get_status examines clean_output.splitlines()[-25:] for fatal
\* markers and approval prompts.
StatusTailLines == 25
\* constants.INBOX_SERVICE_TAIL_LINES, the tail the scheduler asks the
\* multiplexer for (a configuration value; the constants module is outside
\* the source tree).
INBOX_SERVICE_TAIL_LINES == 5

VARIABLES
    metadata,    \* store: terminals table, terminal id -> stored metadata
    msgs,        \* store: inbox_messages table in created-at order
    window,      \* multiplexer: does the terminal's window exist
    scrollback,  \* multiplexer: the lines of each window's history
    logfile,     \* file system: <log_root>/<id>.log
    events,      \* watcher: is a modification event of <id>.log waiting
    providers,   \* ProviderManager._providers
    pos,         \* FilePositionTracker._positions
    buf,         \* O1LogReader._buffers
    handlers,    \* each watcher thread's position in _handle_log_change
    life,        \* each terminal's position in create_/destroy_terminal
    sent,        \* history: send_input invocations per message
    rows,        \* registry model: the store's terminals table
    registry,    \* registry model: ProviderManager._providers, id -> instance
    instances,   \* registry model: every provider instance constructed
    callers,     \* registry model: each thread's position in get_provider
    rfile,       \* reader model: the characters of <id>.log
    rpos,        \* reader model: FilePositionTracker._positions
    rbuf,        \* reader model: O1LogReader._buffers
    rlocks,      \* O1LogReader._file_locks of t1's log and the Lock objects held
    readers,     \* reader model: each thread's position in sync_and_check
    rhist,       \* reader model: history of what the calls returned
    fed,         \* buffer model: the reader's capacity and the lines fed to it
    probe,       \* provider calls: the last get_status / extract call and its result
    cli,         \* command line: context files, and what launch did
    acked,       \* history: the messages a send_input call returned for
    touched      \* history: modification reports that came without a new line

\* The state of the inbox scheduler and of the terminals it serves.
svars == <<metadata, msgs, window, scrollback, logfile, events, providers,
           pos, buf, handlers, life, sent>>

\* The state of the provider registry under concurrent callers.
mvars == <<rows, registry, instances, callers>>

\* The state of the log reader of one terminal under concurrent callers.
rvars == <<rfile, rpos, rbuf, rlocks, readers, rhist>>

\* The state the buffer, provider-call and command-line models add.
xvars == <<fed, probe, cli, acked, touched>>

vars == <<svars, mvars, rvars, xvars>>

\* ---------------------------------------------------------------- helpers
Max(S) == CHOOSE x \in S : \A y \in S : y <= x

LastN(s, n) == IF Len(s) <= n THEN s ELSE SubSeq(s, Len(s) - n + 1, Len(s))

\* ------------------------------------------------------------ line classes
\* A scrollback is a sequence of lines; each line is represented by the
\* class of text the provider regexes distinguish.
\*   PROMPT   the line of the heavy angle glyph U+276F alone (a prompt line)
\*   GT       the line ">"            (a prompt line without U+276F)
\*   USER     "You fix the tests"     (USER_PREFIX_PATTERN)
\*   ASSIST   "codex: done"           (ASSISTANT_PREFIX_PATTERN)
\*   ERR      "Error: boom"           (ERROR_PATTERN)
\*   APPROVE  "Approve command? (y/n)" (WAITING_PROMPT_PATTERN)
\*   TEXT     "Codex is thinking"     (none of the above)
Kinds == {"PROMPT", "GT", "USER", "ASSIST", "ERR", "APPROVE", "TEXT"}

\* Further classes of raw lines, needed to tell the providers' parsers apart:
\*   YOU          "You>"            (a prompt line that is also a user line)
\*   ASSIST_EMPTY "codex:"          (an assistant marker with nothing after it)
\*   FAILED       "2 tests failed"  (ordinary output holding the word failed)
\*   BLANK        ""                (an empty line)
\*   ANSI_GT      ESC[32m>ESC[0m    (the line ">" wrapped in colour codes)
\*   BOX_GT       "| > |" drawn with U+2502 (a prompt inside a frame)
\*   BOX_RULE     a line of U+2500 characters (the frame itself)
\*   ENTER        "Enter your task:"          (IDLE_PROMPT_PATTERN of open_autoglm)
\*   INTERACTIVE  "Entering interactive mode" (INTERACTIVE_MODE_PATTERN)
\*   THINK, ACTION  the lines THINKING_PATTERN and ACTION_PATTERN match
\*   RESULT       "Final Result: 42"          (RESULT_PATTERN)
\*   DONE         "Task Completed"            (TASK_COMPLETED_PATTERN)
RawKinds ==
    Kinds \cup {"YOU", "ASSIST_EMPTY", "FAILED", "BLANK", "ANSI_GT", "BOX_GT",
                "BOX_RULE", "ENTER", "INTERACTIVE", "THINK", "ACTION",
                "RESULT", "DONE"}

\* re.sub(ANSI_CODE_PATTERN, "", line): the colour codes are removed.
strip_ansi(k) == IF k = "ANSI_GT" THEN "GT" ELSE k

\* re.sub(ANSI_CODE_PATTERN, "", output), line by line.
clean(output) == [i \in DOMAIN output |-> strip_ansi(output[i])]

\* `not output`: the text of these lines, joined by newlines, is empty.
no_output(output) == output = <<>> \/ output = <<"BLANK">>

\* str.splitlines(): a newline at the very end of the text ends the last
\* line and does not begin another one.
splitlines(text) ==
    IF text # <<>> /\ text[Len(text)] = "BLANK"
    THEN SubSeq(text, 1, Len(text) - 1)
    ELSE text

\* The codex patterns on a line without colour codes: IDLE_PROMPT_PATTERN
\* alone on the line, USER_PREFIX_PATTERN, ASSISTANT_PREFIX_PATTERN,
\* ERROR_PATTERN, WAITING_PROMPT_PATTERN at the start of the line.
IsPromptLine(k) == k \in {"PROMPT", "GT", "YOU"}
IsUserLine(k) == k \in {"USER", "YOU"}
IsAssistantLine(k) == k \in {"ASSIST", "ASSIST_EMPTY"}
IsErrorLine(k) == k = "ERR"
IsWaitingLine(k) == k = "APPROVE"
IsBlankLine(k) == k = "BLANK"

\* IDLE_PROMPT_AT_END_PATTERN: a prompt line followed by nothing but
\* whitespace up to the end of the text.
has_idle_prompt_at_end(text) ==
    \E i \in DOMAIN text :
        /\ IsPromptLine(text[i])
        /\ \A j \in DOMAIN text : j > i => IsBlankLine(text[j])

\* The characters a line of each class puts into the log file: "p" stands
\* for the glyph U+276F, "x" for any other character.  NL ends the line.
NL == "NL"
LineChars(k) == IF k = "PROMPT" THEN <<"p">> ELSE <<"x">>

\* ------------------------------------------------------------ codex provider
\* IDLE_PROMPT_PATTERN_LOG, the one-glyph pattern U+276F.
CodexIdlePatternLog == "p"

get_idle_pattern_for_log(kind) == IF kind = "codex" THEN CodexIdlePatternLog ELSE ""

\* (mutant) COMPLETED as soon as any assistant marker is in the output, also
\* one older than the last user line.
codex_get_status_AnyAssistant(output) ==
    IF no_output(output) THEN "ERROR"
    ELSE LET clean_output == clean(output)
             tail == LastN(splitlines(clean_output), StatusTailLines)
         IN
         IF \E i \in DOMAIN tail : IsErrorLine(tail[i]) THEN "ERROR"
         ELSE IF \E i \in DOMAIN tail : IsWaitingLine(tail[i])
              THEN "WAITING_USER_ANSWER"
         ELSE IF has_idle_prompt_at_end(clean_output)
              THEN LET users == {i \in DOMAIN clean_output :
                                    IsUserLine(clean_output[i])}
                   IN
                   IF users # {}
                   THEN IF \E j \in DOMAIN clean_output :
                              IsAssistantLine(clean_output[j])
                        THEN "COMPLETED"
                        ELSE "IDLE"
                   ELSE "IDLE"
         ELSE "PROCESSING"

\* (mutant) a prompt line anywhere in the output counts as the idle prompt.
codex_get_status_StalePrompt(output) ==
    IF no_output(output) THEN "ERROR"
    ELSE LET clean_output == clean(output)
             tail == LastN(splitlines(clean_output), StatusTailLines)
         IN
         IF \E i \in DOMAIN tail : IsErrorLine(tail[i]) THEN "ERROR"
         ELSE IF \E i \in DOMAIN tail : IsWaitingLine(tail[i])
              THEN "WAITING_USER_ANSWER"
         ELSE IF \E p \in DOMAIN clean_output : IsPromptLine(clean_output[p])
              THEN LET users == {i \in DOMAIN clean_output :
                                    IsUserLine(clean_output[i])}
                   IN
                   IF users # {}
                   THEN IF \E j \in DOMAIN clean_output :
                              j >= Max(users) /\ IsAssistantLine(clean_output[j])
                        THEN "COMPLETED"
                        ELSE "IDLE"
                   ELSE "IDLE"
         ELSE "PROCESSING"

\* (mutant) the approval prompt is tested before the fatal markers.
codex_get_status_WaitingFirst(output) ==
    IF no_output(output) THEN "ERROR"
    ELSE LET clean_output == clean(output)
             tail == LastN(splitlines(clean_output), StatusTailLines)
         IN
         IF \E i \in DOMAIN tail : IsWaitingLine(tail[i])
         THEN "WAITING_USER_ANSWER"
         ELSE IF \E i \in DOMAIN tail : IsErrorLine(tail[i]) THEN "ERROR"
         ELSE IF has_idle_prompt_at_end(clean_output)
              THEN LET users == {i \in DOMAIN clean_output :
                                    IsUserLine(clean_output[i])}
                   IN
                   IF users # {}
                   THEN IF \E j \in DOMAIN clean_output :
                              j >= Max(users) /\ IsAssistantLine(clean_output[j])
                        THEN "COMPLETED"
                        ELSE "IDLE"
                   ELSE "IDLE"
         ELSE "PROCESSING"

\* CodexProvider.get_status over the history `output` the multiplexer returned.
codex_get_status(output) ==
    IF no_output(output) THEN "ERROR"
    ELSE LET clean_output == clean(output)
             tail == LastN(splitlines(clean_output), StatusTailLines)
         IN
         IF \E i \in DOMAIN tail : IsErrorLine(tail[i]) THEN "ERROR"
         ELSE IF \E i \in DOMAIN tail : IsWaitingLine(tail[i])
              THEN "WAITING_USER_ANSWER"
         ELSE IF has_idle_prompt_at_end(clean_output)
              THEN LET users == {i \in DOMAIN clean_output :
                                    IsUserLine(clean_output[i])}
                   IN
                   IF users # {}
                   THEN IF \E j \in DOMAIN clean_output :
                              j >= Max(users) /\ IsAssistantLine(clean_output[j])
                        THEN "COMPLETED"
                        ELSE "IDLE"
                   ELSE "IDLE"
         ELSE "PROCESSING"

\* ------------------------------------------------------------- log reader
\* str.split("\n") over a sequence of characters.
RECURSIVE SplitFrom(_, _, _)
SplitFrom(s, i, cur) ==
    IF i > Len(s) THEN <<cur>>
    ELSE IF s[i] = NL THEN <<cur>> \o SplitFrom(s, i + 1, <<>>)
    ELSE SplitFrom(s, i + 1, Append(cur, s[i]))

split(s) == SplitFrom(s, 1, <<>>)

\* (mutant) a full buffer refuses the new line instead of dropping its
\* oldest one.
LogBuffer_append_KeepsOldest(b, line, max_lines) ==
    IF Len(b) >= max_lines THEN b ELSE Append(b, line)

\* deque(maxlen=max_lines).append: a full deque drops its oldest element; a
\* deque of maxlen 0 stays empty.
LogBuffer_append(b, line, max_lines) ==
    IF max_lines = 0 THEN b
    ELSE IF Len(b) >= max_lines THEN Append(Tail(b), line)
    ELSE Append(b, line)

\* LogBuffer.matches_pattern: re.search(pattern, "\n".join(buffer)).  The
\* patterns of the model are one-character patterns: the pattern matches
\* when some buffered line holds the character.
LogBuffer_matches_pattern(b, pattern) ==
    /\ pattern # ""
    /\ \E i \in DOMAIN b : \E j \in DOMAIN b[i] : b[i][j] = pattern

\* FilePositionTracker.get_position
get_position(positions, t) == IF t \in DOMAIN positions THEN positions[t] ELSE 0

\* FilePositionTracker.set_position
set_position(positions, t, p) ==
    [x \in DOMAIN positions \cup {t} |-> IF x = t THEN p ELSE positions[x]]

\* FilePositionTracker.reset_position
reset_position(positions, t) == [x \in DOMAIN positions \ {t} |-> positions[x]]

\* O1LogReader._get_buffer: the buffers with an empty one created on demand.
get_buffer(buffers, t) ==
    IF t \in DOMAIN buffers THEN buffers
    ELSE [x \in DOMAIN buffers \cup {t} |-> IF x = t THEN <<>> ELSE buffers[x]]

\* The log is a text file in UTF-8: the glyph U+276F ("p") takes three
\* bytes, every other character of the model one.
ByteLen(c) == IF c = "p" THEN 3 ELSE 1

\* The size in bytes of a text: what f.seek(0, os.SEEK_END) and f.tell() at
\* the end of the file return.
RECURSIVE ByteSize(_)
ByteSize(text) ==
    IF text = <<>> THEN 0 ELSE ByteLen(Head(text)) + ByteSize(Tail(text))

\* The number of characters that lie before byte offset b of a text, or -1
\* when the offset is inside a character.
CharsBefore(text, b) ==
    LET at == {i \in 0..Len(text) : ByteSize(SubSeq(text, 1, i)) = b}
    IN IF at = {} THEN -1 ELSE CHOOSE i \in at : TRUE

\* (mutant) no truncation test: the recorded position is always kept.
current_pos_NoTruncationTest(stored, file_size) == stored

\* read_new_content, the truncation test: the position to read from, given
\* what get_position returned and what f.seek(0, os.SEEK_END) returned.
current_pos(stored, file_size) == IF stored > file_size THEN 0 ELSE stored

\* read_new_content, f.seek(cur), f.read(), f.tell(): [raised, content,
\* new_pos].  Behind the end of the file nothing is read and tell() returns
\* the offset that was sought; inside a character the read raises
\* (UnicodeDecodeError); otherwise the rest of the file is read.
read_at(file, cur) ==
    LET n == CharsBefore(file.data, cur) IN
    IF cur > ByteSize(file.data)
    THEN [raised |-> FALSE, content |-> <<>>, new_pos |-> cur]
    ELSE IF n < 0
    THEN [raised |-> TRUE, content |-> <<>>, new_pos |-> cur]
    ELSE [raised |-> FALSE,
          content |-> SubSeq(file.data, n + 1, Len(file.data)),
          new_pos |-> ByteSize(file.data)]

\* read_new_content inside the lock on a file that nobody changes meanwhile,
\* once get_position returned `stored`: open, the truncation test, seek,
\* read, tell: [raised, content, new_pos].  open raises when the file is
\* gone.
read_from(file, stored) ==
    IF ~file.exists
    THEN [raised |-> TRUE, content |-> <<>>, new_pos |-> stored]
    ELSE read_at(file, current_pos(stored, ByteSize(file.data)))

\* O1LogReader.read_new_content: [none, content, pos].  None is returned
\* when there is no file and when the read raised (`except Exception`), and
\* the position is then left as it was.
read_new_content(file, positions, t) ==
    IF ~file.exists
    THEN [none |-> TRUE, content |-> <<>>, pos |-> positions]
    ELSE LET r == read_from(file, get_position(positions, t)) IN
         IF r.raised
         THEN [none |-> TRUE, content |-> <<>>, pos |-> positions]
         ELSE [none |-> FALSE, content |-> r.content,
               pos |-> set_position(positions, t, r.new_pos)]

\* The non-empty lines of a content, in order.
NonEmptyLines(content) == SelectSeq(split(content), LAMBDA l : l # <<>>)

\* O1LogReader.update_buffer
RECURSIVE AppendLines(_, _, _)
AppendLines(b, lines, max_lines) ==
    IF lines = <<>> THEN b
    ELSE AppendLines(IF Head(lines) # <<>>
                     THEN LogBuffer_append(b, Head(lines), max_lines)
                     ELSE b,
                     Tail(lines), max_lines)

\* update_buffer of a reader constructed with O1LogReader(buffer_lines=n).
update_buffer_lines(buffers, t, content, buffer_lines) ==
    IF content = <<>> THEN buffers
    ELSE LET bs == get_buffer(buffers, t) IN
         [bs EXCEPT ![t] = AppendLines(@, split(content), buffer_lines)]

\* update_buffer of the global reader (default capacity).
update_buffer(buffers, t, content) ==
    update_buffer_lines(buffers, t, content, DefaultBufferLines)

\* O1LogReader.matches_idle_pattern: [result, buf].
matches_idle_pattern(buffers, t, pattern) ==
    IF pattern = "" THEN [result |-> FALSE, buf |-> buffers]
    ELSE LET bs == get_buffer(buffers, t) IN
         [result |-> LogBuffer_matches_pattern(bs[t], pattern), buf |-> bs]

\* sync_and_check of a reader constructed with O1LogReader(buffer_lines=n):
\* [none, pos, buf, content]; none means nothing matched, content is what
\* read_new_content returned.
sync_and_check_lines(file, positions, buffers, t, idle_pattern, buffer_lines) ==
    LET r == read_new_content(file, positions, t)
        b1 == IF ~r.none /\ r.content # <<>>
              THEN update_buffer_lines(buffers, t, r.content, buffer_lines)
              ELSE buffers
        m == matches_idle_pattern(b1, t, idle_pattern)
    IN [none |-> ~m.result, pos |-> r.pos, buf |-> m.buf, content |-> r.content]

\* O1LogReader.sync_and_check of the global reader (default capacity).
sync_and_check(file, positions, buffers, t, idle_pattern) ==
    sync_and_check_lines(file, positions, buffers, t, idle_pattern,
                         DefaultBufferLines)

\* reset_terminal, lines 341-344: the id's LogBuffer, if the reader has one,
\* is cleared.
clear_buffer(buffers, t) ==
    IF t \in DOMAIN buffers THEN [buffers EXCEPT ![t] = <<>>] ELSE buffers

\* O1LogReader.reset_terminal run without interruption: [pos, buf].
reset_terminal(positions, buffers, t) ==
    [pos |-> reset_position(positions, t), buf |-> clear_buffer(buffers, t)]

\* A thread outside a call of the reader.  In a call: call names the method
\* called ("" stands for sync_and_check where nothing else is called), pc is
\* its position, lock the Lock object _get_file_lock returned (named after
\* the thread that created it), stored the local current_pos of
\* read_new_content, content and new_pos its locals new_content and new_pos,
\* trunc says that it took the truncation branch, lines are the lines
\* update_buffer has still to append, found is the result of sync_and_check
\* (FALSE: None).  detached: the LogBuffer object the thread holds in
\* update_buffer's loop was removed from _buffers (clear_all), so its appends
\* reach no later reader of the dict.  stale: the thread works on a reader
\* object that reset_global_reader has dropped meanwhile.
IdleReader ==
    [pc |-> "idle", lock |-> "none", stored |-> 0, content |-> <<>>,
     new_pos |-> 0, trunc |-> FALSE, lines |-> <<>>, found |-> FALSE,
     call |-> "", detached |-> FALSE, stale |-> FALSE]

\* read_new_content up to the lock: no file, None is returned and
\* sync_and_check goes on to the pattern test; otherwise _get_file_lock looks
\* the id up in _file_locks.
sync_begin(file, locks) ==
    IF ~file.exists THEN [IdleReader EXCEPT !.pc = "check"]
    ELSE IF locks.dict = "none" THEN [IdleReader EXCEPT !.pc = "lock_create"]
    ELSE [IdleReader EXCEPT !.pc = "acquire", !.lock = locks.dict]

\* `with lock:` can be entered: the thread's Lock object is free.
sync_enabled(rd, locks) == rd.pc = "acquire" => rd.lock \notin locks.held

\* One step of the sync_and_check(t, pattern) call of thread `me`, on a
\* reader of capacity buffer_lines: [rd, pos, buf, locks].  The steps are
\*   begin        log_path.exists(), `terminal_id not in self._file_locks`
\*   lock_create  self._file_locks[terminal_id] = threading.Lock()
\*   lock_return  return self._file_locks[terminal_id]
\*   acquire      `with lock:` entered
\*   getpos       open(log_path), position_tracker.get_position(terminal_id)
\*   size         f.seek(0, os.SEEK_END) and the truncation test
\*   read         f.seek(current_pos), f.read(), f.tell()
\*                (an exception in getpos or read leaves the lock and
\*                read_new_content returns None)
\*   setpos       set_position(new_pos); the lock is left
\*   update       update_buffer: `if not content`, _get_buffer, split
\*   append       update_buffer: buffer.append(line) for one non-empty line
\*                (nothing is appended to the dict's buffer by a thread
\*                whose LogBuffer object was removed from the dict)
\*   check        matches_idle_pattern; no match returns None
\*   content      get_buffered_content: _get_buffer once more, join
\* read_new_content returning None or "" leads to check at once.
sync_step(rd, me, file, positions, buffers, locks, t, pattern, buffer_lines) ==
    LET same == [rd |-> rd, pos |-> positions, buf |-> buffers, locks |-> locks]
        none == [IdleReader EXCEPT !.pc = "check", !.call = rd.call,
                                   !.stale = rd.stale]
    IN
    CASE rd.pc = "begin" ->
            [same EXCEPT !.rd = [sync_begin(file, locks) EXCEPT
                                    !.call = rd.call, !.stale = rd.stale]]
      [] rd.pc = "lock_create" ->
            [same EXCEPT !.rd.pc = "lock_return", !.locks.dict = me]
      [] rd.pc = "lock_return" ->
            [same EXCEPT !.rd.pc = "acquire", !.rd.lock = locks.dict]
      [] rd.pc = "acquire" ->
            [same EXCEPT !.rd.pc = "getpos", !.locks.held = @ \cup {rd.lock}]
      [] rd.pc = "getpos" ->
            IF ~file.exists
            THEN [same EXCEPT !.rd = none,
                              !.locks.held = @ \ {rd.lock}]
            ELSE [same EXCEPT !.rd.pc = "size",
                              !.rd.stored = get_position(positions, t)]
      [] rd.pc = "size" ->
            [same EXCEPT !.rd.pc = "read",
                         !.rd.stored =
                             current_pos(rd.stored, ByteSize(file.data)),
                         !.rd.trunc = rd.stored > ByteSize(file.data)]
      [] rd.pc = "read" ->
            LET r == read_at(file, rd.stored) IN
            IF r.raised
            THEN [same EXCEPT !.rd = none,
                              !.locks.held = @ \ {rd.lock}]
            ELSE [same EXCEPT !.rd.pc = "setpos",
                              !.rd.content = r.content,
                              !.rd.new_pos = r.new_pos]
      [] rd.pc = "setpos" ->
            [same EXCEPT !.pos = set_position(positions, t, rd.new_pos),
                         !.locks.held = @ \ {rd.lock},
                         !.rd.pc = IF rd.content # <<>> THEN "update"
                                   ELSE "check",
                         !.rd.lock = "none",
                         !.rd.stored = 0,
                         !.rd.new_pos = 0,
                         !.rd.trunc = FALSE]
      [] rd.pc = "update" ->
            [same EXCEPT !.buf = get_buffer(buffers, t),
                         !.rd.lines = NonEmptyLines(rd.content),
                         !.rd.pc = IF NonEmptyLines(rd.content) = <<>>
                                   THEN "check" ELSE "append"]
      [] rd.pc = "append" ->
            [same EXCEPT !.buf = IF rd.detached THEN buffers
                                 ELSE [get_buffer(buffers, t) EXCEPT ![t] =
                                          LogBuffer_append(@, Head(rd.lines),
                                                           buffer_lines)],
                         !.rd.lines = Tail(rd.lines),
                         !.rd.detached = rd.detached /\ Tail(rd.lines) # <<>>,
                         !.rd.pc = IF Tail(rd.lines) = <<>> THEN "check"
                                   ELSE "append"]
      [] rd.pc = "check" ->
            LET m == matches_idle_pattern(buffers, t, pattern) IN
            [same EXCEPT !.buf = m.buf,
                         !.rd.pc = IF m.result THEN "content" ELSE "done",
                         !.rd.content = <<>>,
                         !.rd.found = m.result]
      [] rd.pc = "content" ->
            [same EXCEPT !.buf = get_buffer(buffers, t), !.rd.pc = "done"]
      [] OTHER -> same

\* ---------------------------------------------------------- metadata store
NoMeta == [provider |-> "none", agent_profile |-> ""]

\* get_terminal_metadata: the stored row, or NoMeta when there is none.
get_terminal_metadata(t) == metadata[t]

\* The ids (positions in created-at order) of t's PENDING messages.
PendingIds(ms, t) ==
    {i \in DOMAIN ms : ms[i].receiver = t /\ ms[i].status = "PENDING"}

Min(S) == CHOOSE x \in S : \A y \in S : x <= y

\* get_pending_messages(terminal_id, limit=1): the oldest PENDING message
\* of the terminal, as a sequence of at most one id.
get_pending_messages(ms, t) ==
    IF PendingIds(ms, t) = {} THEN <<>> ELSE <<Min(PendingIds(ms, t))>>

\* (mutant) an unconditional UPDATE: any status is overwritten.
update_message_status_Unconditional(ms, id, status) ==
    [ms EXCEPT ![id].status = status]

\* update_message_status: the store advances a message with one atomic
\* conditional update (UPDATE ... WHERE status = 'PENDING').
update_message_status(ms, id, status) ==
    IF ms[id].status = "PENDING" THEN [ms EXCEPT ![id].status = status] ELSE ms

\* ---------------------------------------------------------- provider manager
NoProvider == [kind |-> "none", initialized |-> FALSE]

\* ProviderType: the kinds create_provider dispatches on.
ProviderTypes == {"q_cli", "kiro_cli", "claude_code", "codex"}

\* ProviderManager.create_provider: [raised, providers].
create_provider(provs, provider_type, t, agent_profile) ==
    IF \/ provider_type \notin ProviderTypes
       \/ provider_type \in {"q_cli", "kiro_cli"} /\ agent_profile = ""
    THEN [raised |-> TRUE, providers |-> provs]
    ELSE [raised |-> FALSE,
          providers |-> [provs EXCEPT ![t] =
                            [kind |-> provider_type, initialized |-> FALSE]]]

\* ProviderManager.get_provider: [raised, providers]; the provider returned
\* is providers[t] of the result.
get_provider(provs, t) ==
    IF provs[t] # NoProvider THEN [raised |-> FALSE, providers |-> provs]
    ELSE IF get_terminal_metadata(t) = NoMeta
         THEN [raised |-> TRUE, providers |-> provs]
         ELSE create_provider(provs, get_terminal_metadata(t).provider, t,
                              get_terminal_metadata(t).agent_profile)

\* ProviderManager.cleanup_provider: pop the entry (provider.cleanup() resets
\* the initialized flag of the instance that was removed).
cleanup_provider(provs, t) == [provs EXCEPT ![t] = NoProvider]

\* -------------------------------------------------------------- multiplexer
\* The part of a window's history that get_history returns for tail_lines:
\* the last tail_lines lines, or all of it for tail_lines=None (written 0).
history_tail(output, tail_lines) ==
    IF tail_lines = 0 THEN output ELSE LastN(output, tail_lines)

\* tmux_client.get_history(session, window, tail_lines): [raised, output].
get_history(t, tail_lines) ==
    IF ~window[t] THEN [raised |-> TRUE, output |-> <<>>]
    ELSE [raised |-> FALSE, output |-> history_tail(scrollback[t], tail_lines)]

\* provider.get_status(tail_lines): [raised, status].
get_status(t, tail_lines) ==
    LET h == get_history(t, tail_lines) IN
    IF h.raised THEN [raised |-> TRUE, status |-> "NONE"]
    ELSE [raised |-> FALSE, status |-> codex_get_status(h.output)]

\* ------------------------------------------------------------ inbox service
\* (mutant) the status test also lets a working agent through.
ReadyStatuses_WithProcessing == {"IDLE", "COMPLETED", "PROCESSING"}

\* The statuses check_and_send_pending_messages accepts.
ReadyStatuses == {"IDLE", "COMPLETED"}

\* A watcher thread outside a callback.  In a callback: pc is the position,
\* tid the terminal of the event, msg the message fetched, began what the
\* terminal was when the callback began (history, see Phase; kept up to the
\* call of send_input); inside get_provider fn names the caller
\* (_has_idle_pattern or check_and_send_pending_messages) and row is the
\* local `metadata`; inside sync_and_check (pc "sync") pattern is the
\* provider's idle pattern and rd the thread's position in the call.
\* The positions are
\*   lookup    get_provider, self._providers.get(terminal_id)
\*   metadata  get_provider, get_terminal_metadata(terminal_id)
\*   create    get_provider, self.create_provider(...)
\*   sync      _has_idle_pattern, log_reader.sync_and_check(...)
\*   deliver   check_and_send_pending_messages, get_pending_messages
\*   status    check_and_send_pending_messages, provider.get_status
\*   send, mark_delivered, mark_failed   the try block
IdleHandler ==
    [pc |-> "idle", tid |-> "none", msg |-> 0, began |-> "up", pattern |-> "",
     fn |-> "", row |-> NoMeta, rd |-> IdleReader]

\* The watcher hands an event to the first thread that is free.
FirstThread(g, h) == g = "h1" /\ h = "h2"

\* The lifecycle positions at which destroy_terminal has cleaned up the
\* provider and removed the metadata.
Destroyed(t) == life[t] \in {"d3", "d4", "destroyed"}

\* Has initialize() of t's provider timed out, with no teardown or deletion
\* since.
InitTimedOut(t) == life[t] = "init_failed" /\ ~providers[t].initialized

\* What the scheduler's claims distinguish about a terminal.
Phase(t) == IF Destroyed(t) THEN "destroyed"
            ELSE IF InitTimedOut(t) THEN "init_timed_out"
            ELSE "up"

\* (mutant) the provider is fetched and the reader is synced before the
\* store is asked for PENDING messages.
HandleLogChange_SyncFirst(h, t) ==
    /\ handlers[h].pc = "idle"
    /\ \A g \in Handlers : FirstThread(g, h) => handlers[g].pc # "idle"
    /\ events[t]
    /\ events' = [events EXCEPT ![t] = FALSE]
    /\ handlers' = [handlers EXCEPT ![h] =
                       [IdleHandler EXCEPT !.pc = "lookup", !.tid = t,
                                           !.began = Phase(t),
                                           !.fn = "_has_idle_pattern"]]
    /\ UNCHANGED <<metadata, msgs, window, scrollback, logfile, providers, pos,
                   buf, life, sent>>
    /\ UNCHANGED <<mvars, rvars, xvars>>

\* LogFileHandler.on_modified / _handle_log_change up to the call of
\* _has_idle_pattern: thread h takes one modification event of <t>.log and
\* asks the store for the oldest PENDING message; none ends the callback.
HandleLogChange(h, t) ==
    /\ handlers[h].pc = "idle"
    /\ \A g \in Handlers : FirstThread(g, h) => handlers[g].pc # "idle"
    /\ events[t]
    /\ events' = [events EXCEPT ![t] = FALSE]
    /\ handlers' =
         IF get_pending_messages(msgs, t) = <<>> THEN handlers
         ELSE [handlers EXCEPT ![h] =
                  [IdleHandler EXCEPT !.pc = "lookup", !.tid = t,
                                      !.began = Phase(t),
                                      !.fn = "_has_idle_pattern"]]
    /\ UNCHANGED <<metadata, msgs, window, scrollback, logfile, providers, pos,
                   buf, life, sent>>
    /\ UNCHANGED <<mvars, rvars, xvars>>

\* get_provider returned a provider of this kind to thread h:
\* _has_idle_pattern fetches its idle pattern and enters sync_and_check,
\* check_and_send_pending_messages goes on to get_status.
provider_returned(hd, kind) ==
    IF hd.fn = "_has_idle_pattern"
    THEN [hd EXCEPT !.pc = "sync",
                    !.pattern = get_idle_pattern_for_log(kind),
                    !.row = NoMeta,
                    !.rd = [IdleReader EXCEPT !.pc = "begin"]]
    ELSE [hd EXCEPT !.pc = "status", !.row = NoMeta]

\* get_provider, first statement: self._providers.get(terminal_id).  A
\* cached provider is returned; otherwise the store is asked next.
ProviderLookup(h) ==
    /\ handlers[h].pc = "lookup"
    /\ LET hd == handlers[h] IN
       handlers' = [handlers EXCEPT ![h] =
                       IF providers[hd.tid] # NoProvider
                       THEN provider_returned(hd, providers[hd.tid].kind)
                       ELSE [hd EXCEPT !.pc = "metadata"]]
    /\ UNCHANGED <<metadata, msgs, window, scrollback, logfile, events,
                   providers, pos, buf, life, sent>>
    /\ UNCHANGED <<mvars, rvars, xvars>>

\* get_provider after a miss: get_terminal_metadata.  Without a row
\* ValueError is raised: _has_idle_pattern catches it and returns False,
\* check_and_send_pending_messages lets it through; either way the callback
\* ends.
ProviderMetadata(h) ==
    /\ handlers[h].pc = "metadata"
    /\ LET hd == handlers[h] IN
       handlers' = [handlers EXCEPT ![h] =
                       IF get_terminal_metadata(hd.tid) = NoMeta
                       THEN IdleHandler
                       ELSE [hd EXCEPT !.pc = "create",
                                       !.row = get_terminal_metadata(hd.tid)]]
    /\ UNCHANGED <<metadata, msgs, window, scrollback, logfile, events,
                   providers, pos, buf, life, sent>>
    /\ UNCHANGED <<mvars, rvars, xvars>>

\* get_provider, on-demand creation: create_provider with the kind and the
\* profile of the row read before; the new provider replaces whatever the
\* map holds for the id.  An exception ends the callback.
ProviderCreate(h) ==
    /\ handlers[h].pc = "create"
    /\ LET t == handlers[h].tid
           cp == create_provider(providers, handlers[h].row.provider, t,
                                 handlers[h].row.agent_profile)
       IN /\ providers' = cp.providers
          /\ handlers' = [handlers EXCEPT ![h] =
                             IF cp.raised THEN IdleHandler
                             ELSE provider_returned(handlers[h],
                                                    cp.providers[t].kind)]
    /\ UNCHANGED <<metadata, msgs, window, scrollback, logfile, events, pos,
                   buf, life, sent>>
    /\ UNCHANGED <<mvars, rvars, xvars>>

\* Thread h is inside sync_and_check and its next step can be taken (the
\* step into `with lock:` waits for the Lock object to be free).
SyncWaits(h) ==
    /\ handlers[h].pc = "sync"
    /\ sync_enabled(handlers[h].rd, rlocks)

\* One step of the sync_and_check call of thread h's callback (see
\* sync_step), on the global reader.  With the pattern test the call
\* returns: None ends the callback, anything else leads to
\* check_and_send_pending_messages.
SyncAndCheckStep(h) ==
    /\ SyncWaits(h)
    /\ LET t == handlers[h].tid
           r == sync_step(handlers[h].rd, h, logfile[t], pos, buf, rlocks, t,
                          handlers[h].pattern, DefaultBufferLines)
       IN /\ pos' = r.pos
          /\ buf' = r.buf
          /\ rlocks' = r.locks
          /\ handlers' =
               IF r.rd.pc # "done" THEN [handlers EXCEPT ![h].rd = r.rd]
               ELSE IF r.rd.found
                    THEN [handlers EXCEPT ![h].pc = "deliver",
                                          ![h].pattern = "",
                                          ![h].fn = "",
                                          ![h].rd = IdleReader]
                    ELSE [handlers EXCEPT ![h] = IdleHandler]
    /\ UNCHANGED <<metadata, msgs, window, scrollback, logfile, events,
                   providers, life, sent>>
    /\ UNCHANGED <<mvars, rfile, rpos, rbuf, readers, rhist, xvars>>

\* check_and_send_pending_messages is called for t by a thread that is not
\* in a log-change callback (the function is public).
CheckAndSendCall(h, t) ==
    /\ handlers[h].pc = "idle"
    /\ \A g \in Handlers : FirstThread(g, h) => handlers[g].pc # "idle"
    /\ touched < MaxTouch
    /\ touched' = touched + 1
    /\ handlers' = [handlers EXCEPT ![h] =
                       [IdleHandler EXCEPT !.pc = "deliver", !.tid = t,
                                           !.began = Phase(t)]]
    /\ UNCHANGED <<metadata, msgs, window, scrollback, logfile, events,
                   providers, pos, buf, life, sent>>
    /\ UNCHANGED <<mvars, rvars, fed, probe, cli, acked>>

\* check_and_send_pending_messages, first statement: the oldest PENDING
\* message is fetched; without one the function returns False.
CheckPending(h) ==
    /\ handlers[h].pc = "deliver"
    /\ LET messages == get_pending_messages(msgs, handlers[h].tid)
       IN handlers' = [handlers EXCEPT ![h] =
                          IF messages = <<>> THEN IdleHandler
                          ELSE [handlers[h] EXCEPT
                                   !.pc = "lookup",
                                   !.msg = messages[1],
                                   !.fn = "check_and_send_pending_messages"]]
    /\ UNCHANGED <<metadata, msgs, window, scrollback, logfile, events,
                   providers, pos, buf, life, sent>>
    /\ UNCHANGED <<mvars, rvars, xvars>>

\* (mutant) the provider's status is not asked for before sending.
CheckStatus_NoStatusCheck(h) ==
    /\ handlers[h].pc = "status"
    /\ handlers' = [handlers EXCEPT ![h].pc = "send", ![h].fn = ""]
    /\ UNCHANGED <<metadata, msgs, window, scrollback, logfile, events,
                   providers, pos, buf, life, sent>>
    /\ UNCHANGED <<mvars, rvars, xvars>>

\* check_and_send_pending_messages, provider.get_status(tail_lines): the
\* history of the window is fetched and parsed.  A missing window raises and
\* the exception ends the callback; a status that is not ready returns
\* False; otherwise the try block is entered.
CheckStatus(h) ==
    /\ handlers[h].pc = "status"
    /\ LET st == get_status(handlers[h].tid, INBOX_SERVICE_TAIL_LINES)
       IN handlers' = [handlers EXCEPT ![h] =
                          IF ~st.raised /\ st.status \in ReadyStatuses
                          THEN [handlers[h] EXCEPT !.pc = "send", !.fn = ""]
                          ELSE IdleHandler]
    /\ UNCHANGED <<metadata, msgs, window, scrollback, logfile, events,
                   providers, pos, buf, life, sent>>
    /\ UNCHANGED <<mvars, rvars, xvars>>

\* terminal_service.send_input(terminal_id, message.message): the provider
\* is looked up, then the keys go to the window.  An unknown terminal or a
\* missing window raises; the multiplexer may fail at any call.
SendInput(h, ok) ==
    /\ handlers[h].pc = "send"
    /\ LET t == handlers[h].tid
           gp == get_provider(providers, t)
       IN /\ ok => ~gp.raised /\ window[t]
          /\ providers' = gp.providers
          /\ sent' = [sent EXCEPT ![handlers[h].msg] = @ + 1]
          /\ acked' = IF ok THEN acked \cup {handlers[h].msg} ELSE acked
          /\ handlers' = [handlers EXCEPT
                             ![h].pc = IF ok THEN "mark_delivered"
                                       ELSE "mark_failed",
                             ![h].began = "up"]
    /\ UNCHANGED <<metadata, msgs, window, scrollback, logfile, events, pos,
                   buf, life>>
    /\ UNCHANGED <<mvars, rvars, fed, probe, cli, touched>>

\* (mutant) every PENDING message of the recipient is marked DELIVERED.
MarkDelivered_AllPending(h) ==
    /\ handlers[h].pc = "mark_delivered"
    /\ msgs' = [i \in DOMAIN msgs |->
                  IF i \in PendingIds(msgs, handlers[h].tid)
                  THEN [msgs[i] EXCEPT !.status = "DELIVERED"]
                  ELSE msgs[i]]
    /\ handlers' = [handlers EXCEPT ![h] = IdleHandler]
    /\ UNCHANGED <<metadata, window, scrollback, logfile, events, providers,
                   pos, buf, life, sent>>
    /\ UNCHANGED <<mvars, rvars, xvars>>

\* send_input returned and update_message_status(message.id, DELIVERED)
\* raised (the store failed): the except clause of the same try block runs
\* update_message_status(message.id, FAILED), which succeeds or raises in
\* its turn, and the exception ends the callback.
MarkDeliveredRaises(h, failed_ok) ==
    /\ handlers[h].pc = "mark_delivered"
    /\ sent[handlers[h].msg] <= MaxWriteFails
    /\ msgs' = IF failed_ok
               THEN update_message_status(msgs, handlers[h].msg, "FAILED")
               ELSE msgs
    /\ handlers' = [handlers EXCEPT ![h] = IdleHandler]
    /\ UNCHANGED <<metadata, window, scrollback, logfile, events, providers,
                   pos, buf, life, sent>>
    /\ UNCHANGED <<mvars, rvars, xvars>>

\* send_input returned: update_message_status(message.id, DELIVERED).
MarkDelivered(h) ==
    /\ handlers[h].pc = "mark_delivered"
    /\ msgs' = update_message_status(msgs, handlers[h].msg, "DELIVERED")
    /\ handlers' = [handlers EXCEPT ![h] = IdleHandler]
    /\ UNCHANGED <<metadata, window, scrollback, logfile, events, providers,
                   pos, buf, life, sent>>
    /\ UNCHANGED <<mvars, rvars, xvars>>

\* (mutant) the except clause re-raises without recording the failure.
MarkFailed_NoUpdate(h) ==
    /\ handlers[h].pc = "mark_failed"
    /\ handlers' = [handlers EXCEPT ![h] = IdleHandler]
    /\ UNCHANGED <<metadata, msgs, window, scrollback, logfile, events,
                   providers, pos, buf, life, sent>>
    /\ UNCHANGED <<mvars, rvars, xvars>>

\* send_input raised: update_message_status(message.id, FAILED), raise; the
\* except clause of _handle_log_change logs it and the callback returns.
MarkFailed(h) ==
    /\ handlers[h].pc = "mark_failed"
    /\ msgs' = update_message_status(msgs, handlers[h].msg, "FAILED")
    /\ handlers' = [handlers EXCEPT ![h] = IdleHandler]
    /\ UNCHANGED <<metadata, window, scrollback, logfile, events, providers,
                   pos, buf, life, sent>>
    /\ UNCHANGED <<mvars, rvars, xvars>>

\* ------------------------------------------------------------- environment
\* A caller enqueues a message for t: a PENDING row at the end of the table.
EnqueueMessage(t) ==
    /\ Len(msgs) < MaxMsgs
    /\ msgs' = Append(msgs, [receiver |-> t, status |-> "PENDING"])
    /\ sent' = Append(sent, 0)
    /\ UNCHANGED <<metadata, window, scrollback, logfile, events, providers,
                   pos, buf, handlers, life>>
    /\ UNCHANGED <<mvars, rvars, xvars>>

\* The lines an agent writes in the scheduler's runs.
OutKinds == {"PROMPT", "TEXT"}

RECURSIVE SumLen(_, _)
SumLen(f, S) ==
    IF S = {} THEN 0
    ELSE LET x == CHOOSE y \in S : TRUE IN Len(f[x]) + SumLen(f, S \ {x})

\* The agent in t's window writes a line: it enters the window's history,
\* is piped to <t>.log, and the watcher sees the file modified (modification
\* events that have not been dispatched yet coalesce).
AgentOutput(t, k) ==
    /\ window[t]
    /\ logfile[t].exists
    /\ SumLen(scrollback, TIDs) < MaxOut
    /\ scrollback' = [scrollback EXCEPT ![t] = Append(@, k)]
    /\ logfile' = [logfile EXCEPT ![t].data = @ \o LineChars(k) \o <<NL>>]
    /\ events' = [events EXCEPT ![t] = TRUE]
    /\ UNCHANGED <<metadata, msgs, window, providers, pos, buf, handlers,
                   life, sent>>
    /\ UNCHANGED <<mvars, rvars, xvars>>

\* The watcher reports <t>.log modified although no line was added (one
\* write reported more than once, or an attribute change).
LogTouched(t) ==
    /\ logfile[t].exists
    /\ ~events[t]
    /\ touched < MaxTouch
    /\ events' = [events EXCEPT ![t] = TRUE]
    /\ touched' = touched + 1
    /\ UNCHANGED <<metadata, msgs, window, scrollback, logfile, providers, pos,
                   buf, handlers, life, sent>>
    /\ UNCHANGED <<mvars, rvars, fed, probe, cli, acked>>

\* ---------------------------------------------------------- terminal service
\* create_terminal up to provider.initialize(): window, metadata, log pipe,
\* and the provider inserted by create_provider.
CreateTerminal(t) ==
    /\ life[t] = "none"
    /\ window' = [window EXCEPT ![t] = TRUE]
    /\ metadata' = [metadata EXCEPT ![t] =
                       [provider |-> "codex", agent_profile |-> "dev"]]
    /\ logfile' = [logfile EXCEPT ![t] = [exists |-> TRUE, data |-> <<>>]]
    /\ providers' = create_provider(providers, "codex", t, "dev").providers
    /\ life' = [life EXCEPT ![t] = "creating"]
    /\ UNCHANGED <<msgs, scrollback, events, pos, buf, handlers, sent>>
    /\ UNCHANGED <<mvars, rvars, xvars>>

\* CodexProvider.initialize returns True: wait_until_status saw IDLE.
InitializeOk(t) ==
    /\ life[t] = "creating"
    /\ providers[t] # NoProvider
    /\ get_status(t, StatusTailLines).status = "IDLE"
    /\ providers' = [providers EXCEPT ![t].initialized = TRUE]
    /\ life' = [life EXCEPT ![t] = "ready"]
    /\ UNCHANGED <<metadata, msgs, window, scrollback, logfile, events, pos,
                   buf, handlers, sent>>
    /\ UNCHANGED <<mvars, rvars, xvars>>

\* CodexProvider.initialize raises TimeoutError (the shell wait or the wait
\* for IDLE ran out): _initialized stays False.
InitializeTimeout(t) ==
    /\ life[t] = "creating"
    /\ life' = [life EXCEPT ![t] = "init_failed"]
    /\ UNCHANGED <<metadata, msgs, window, scrollback, logfile, events,
                   providers, pos, buf, handlers, sent>>
    /\ UNCHANGED <<mvars, rvars, xvars>>

\* create_terminal's failure path: best-effort tear down of the window and
\* the metadata.
TearDown(t) ==
    /\ life[t] = "init_failed"
    /\ window' = [window EXCEPT ![t] = FALSE]
    /\ metadata' = [metadata EXCEPT ![t] = NoMeta]
    /\ life' = [life EXCEPT ![t] = "torn_down"]
    /\ UNCHANGED <<msgs, scrollback, logfile, events, providers, pos, buf,
                   handlers, sent>>
    /\ UNCHANGED <<mvars, rvars, xvars>>

\* destroy_terminal step 1: provider cleanup (of a terminal whose creation
\* completed).
DestroyCleanupProvider(t) ==
    /\ life[t] = "ready"
    /\ providers' = cleanup_provider(providers, t)
    /\ life' = [life EXCEPT ![t] = "d1"]
    /\ UNCHANGED <<metadata, msgs, window, scrollback, logfile, events, pos,
                   buf, handlers, sent>>
    /\ UNCHANGED <<mvars, rvars, xvars>>

\* destroy_terminal step 2: multiplexer window destroy.
DestroyWindow(t) ==
    /\ life[t] = "d1"
    /\ window' = [window EXCEPT ![t] = FALSE]
    /\ life' = [life EXCEPT ![t] = "d2"]
    /\ UNCHANGED <<metadata, msgs, scrollback, logfile, events, providers,
                   pos, buf, handlers, sent>>
    /\ UNCHANGED <<mvars, rvars, xvars>>

\* destroy_terminal step 3: metadata removal.
DestroyMetadata(t) ==
    /\ life[t] = "d2"
    /\ metadata' = [metadata EXCEPT ![t] = NoMeta]
    /\ life' = [life EXCEPT ![t] = "d3"]
    /\ UNCHANGED <<msgs, window, scrollback, logfile, events, providers, pos,
                   buf, handlers, sent>>
    /\ UNCHANGED <<mvars, rvars, xvars>>

\* destroy_terminal step 4, log reader reset_terminal, first statement:
\* position_tracker.reset_position(terminal_id).
DestroyResetReader(t) ==
    /\ life[t] = "d3"
    /\ pos' = reset_position(pos, t)
    /\ life' = [life EXCEPT ![t] = "d4"]
    /\ UNCHANGED <<metadata, msgs, window, scrollback, logfile, events,
                   providers, buf, handlers, sent>>
    /\ UNCHANGED <<mvars, rvars, xvars>>

\* reset_terminal, second statement: the id's buffer, if there is one, is
\* cleared under _buffers_lock; destroy_terminal returns.
DestroyClearBuffer(t) ==
    /\ life[t] = "d4"
    /\ buf' = clear_buffer(buf, t)
    /\ life' = [life EXCEPT ![t] = "destroyed"]
    /\ UNCHANGED <<metadata, msgs, window, scrollback, logfile, events,
                   providers, pos, handlers, sent>>
    /\ UNCHANGED <<mvars, rvars, xvars>>

\* ------------------------------------------- provider registry and threads
\* Most provider instances constructed in a run of the registry model.
MaxInst == 2

\* The threads that call into the provider manager.
Callers == {"c1", "c2"}

\* The provider kinds of the specification's wire enum.
WireKinds == {"q_cli", "kiro_cli", "claude_code", "codex", "droid",
              "open_autoglm"}

\* The kinds whose initialize() is part of the source tree.
InitKinds == {"codex", "droid", "open_autoglm"}

\* The multiplexer session and window the terminal service gave terminal t.
Session(t) == <<"session", t>>
Window(t) == <<"window", t>>

\* A row of the terminals table, and the absent row.
NoRow == [provider |-> "none", tmux_session |-> <<>>, tmux_window |-> <<>>,
          agent_profile |-> ""]
Row(kind, t, profile) ==
    [provider |-> kind, tmux_session |-> Session(t), tmux_window |-> Window(t),
     agent_profile |-> profile]

\* A provider object just constructed: XProvider.__init__ stores its
\* arguments and sets _initialized = False.  `place` is "inserted" while the
\* object is (or has been put) in ProviderManager._providers, "removed" once
\* cleanup_provider popped it, "direct" when it was never given to the
\* manager.  `raised` and `cause` record the last initialize() call
\* ("shell_wait": the call is in wait_for_shell; "waiting": it is in its
\* wait for IDLE).
NewProvider(kind, t, session, window_name, profile, place) ==
    [kind |-> kind, tid |-> t, session |-> session, window |-> window_name,
     profile |-> profile, initialized |-> FALSE, keys_sent |-> FALSE,
     place |-> place, raised |-> "none", cause |-> "none"]

\* The exception create_provider raises for its arguments ("" for none).
create_provider_error(provider_type, agent_profile) ==
    IF provider_type \in {"q_cli", "kiro_cli"} /\ agent_profile = ""
    THEN "ValueError: requires agent_profile"
    ELSE IF provider_type \notin ProviderTypes
         THEN "ValueError: Unknown provider type"
         ELSE ""

\* A caller outside a call, and the result a call hands back: an exception
\* text, or the index of a provider instance.
NoResult == [err |-> "", inst |-> 0]
IdleCaller == [pc |-> "idle", tid |-> "none", row |-> NoRow, ret |-> NoResult]

\* ProviderManager.create_provider on the registry of instances: the lists
\* and the map after the call, and its result.
create_provider_call(insts, reg, kind, t, session, window_name, profile) ==
    LET e == create_provider_error(kind, profile) IN
    IF e # ""
    THEN [instances |-> insts, registry |-> reg,
          ret |-> [err |-> e, inst |-> 0]]
    ELSE [instances |-> Append(insts, NewProvider(kind, t, session,
                                            window_name, profile,
                                            "inserted")),
          registry |-> [reg EXCEPT ![t] = Len(insts) + 1],
          ret |-> [err |-> "", inst |-> Len(insts) + 1]]

\* A call goes to the first thread that is free.
FirstCaller(g, c) == g = "c1" /\ c = "c2"

\* The arguments create_terminal passes to create_provider in the runs of
\* the model: every wire kind and an unknown one with a profile, and the
\* kinds that require a profile without one.
CreateArgs ==
    {<<k, "dev">> : k \in WireKinds \cup {"bogus"}}
        \cup {<<"q_cli", "">>, <<"kiro_cli", "">>}

\* get_provider, first statement: self._providers.get(terminal_id).
GetProviderLookup(c, t) ==
    /\ callers[c].pc = "idle"
    /\ \A g \in Callers : FirstCaller(g, c) => callers[g].pc # "idle"
    /\ callers' = [callers EXCEPT ![c] =
                     IF registry[t] # 0
                     THEN [pc |-> "done", tid |-> t, row |-> NoRow,
                           ret |-> [err |-> "", inst |-> registry[t]]]
                     ELSE [pc |-> "miss", tid |-> t, row |-> NoRow,
                           ret |-> NoResult]]
    /\ UNCHANGED <<rows, registry, instances>>
    /\ UNCHANGED <<svars, rvars, xvars>>

\* get_provider after a miss: get_terminal_metadata, ValueError when the
\* store has no row.
GetProviderMetadata(c) ==
    /\ callers[c].pc = "miss"
    /\ callers' = [callers EXCEPT ![c] =
                     IF rows[callers[c].tid] = NoRow
                     THEN [@ EXCEPT !.pc = "done",
                                    !.ret = [err |-> "ValueError: not found in database",
                                             inst |-> 0]]
                     ELSE [@ EXCEPT !.pc = "create",
                                    !.row = rows[callers[c].tid]]]
    /\ UNCHANGED <<rows, registry, instances>>
    /\ UNCHANGED <<svars, rvars, xvars>>

\* (mutant) a failed on-demand creation drops whatever the map held.
GetProviderCreate_ClearsMap(c) ==
    /\ callers[c].pc = "create"
    /\ LET t == callers[c].tid
           row == callers[c].row
           r == create_provider_call(instances, registry, row.provider, t,
                                     row.tmux_session, row.tmux_window,
                                     row.agent_profile)
       IN /\ r.ret.err = "" => Len(instances) < MaxInst
          /\ instances' = r.instances
          /\ registry' = IF r.ret.err = "" THEN r.registry
                         ELSE [x \in DOMAIN registry |-> 0]
          /\ callers' = [callers EXCEPT ![c].pc = "done", ![c].ret = r.ret]
    /\ UNCHANGED rows
    /\ UNCHANGED <<svars, rvars, xvars>>

\* get_provider, on-demand creation: create_provider with the row's kind,
\* session, window and profile.
GetProviderCreate(c) ==
    /\ callers[c].pc = "create"
    /\ LET t == callers[c].tid
           row == callers[c].row
           r == create_provider_call(instances, registry, row.provider, t,
                                     row.tmux_session, row.tmux_window,
                                     row.agent_profile)
       IN /\ r.ret.err = "" => Len(instances) < MaxInst
          /\ instances' = r.instances
          /\ registry' = r.registry
          /\ callers' = [callers EXCEPT ![c].pc = "done", ![c].ret = r.ret]
    /\ UNCHANGED rows
    /\ UNCHANGED <<svars, rvars, xvars>>

\* The caller takes the result (or the exception) and is free again.
CallReturns(c) ==
    /\ callers[c].pc = "done"
    /\ callers' = [callers EXCEPT ![c] = IdleCaller]
    /\ UNCHANGED <<rows, registry, instances>>
    /\ UNCHANGED <<svars, rvars, xvars>>

\* create_terminal for a fresh id (no row, no entry, and no call in flight
\* that names it): the row is persisted and create_provider is called; when
\* create_provider raises, the row is taken back.
CreateProviderCall(c, t, kind, profile) ==
    /\ callers[c].pc = "idle"
    /\ \A g \in Callers : FirstCaller(g, c) => callers[g].pc # "idle"
    /\ rows[t] = NoRow
    /\ registry[t] = 0
    /\ \A g \in Callers : callers[g].tid # t
    /\ LET r == create_provider_call(instances, registry, kind, t,
                                     Session(t), Window(t), profile)
       IN /\ r.ret.err = "" => Len(instances) < MaxInst
          /\ instances' = r.instances
          /\ registry' = r.registry
          /\ rows' = IF r.ret.err = ""
                       THEN [rows EXCEPT ![t] = Row(kind, t, profile)]
                       ELSE rows
          /\ callers' = [callers EXCEPT ![c] =
                           [pc |-> "done", tid |-> t, row |-> NoRow,
                            ret |-> r.ret]]
    /\ UNCHANGED <<svars, rvars, xvars>>

\* ProviderManager.cleanup_provider: pop the entry and call cleanup() on the
\* instance, which resets _initialized.
CleanupProviderCall(t) ==
    /\ registry[t] # 0
    /\ registry' = [registry EXCEPT ![t] = 0]
    /\ instances' = [instances EXCEPT ![registry[t]].initialized = FALSE,
                                      ![registry[t]].place = "removed"]
    /\ UNCHANGED <<rows, callers>>
    /\ UNCHANGED <<svars, rvars, xvars>>

\* A provider constructed directly (CodexProvider(...), DroidProvider(...),
\* OpenAutoGLMProvider(...)), as the terminal service or a test does.
ConstructDirect(kind, t) ==
    /\ Len(instances) < MaxInst
    /\ instances' = Append(instances,
                           NewProvider(kind, t, Session(t), Window(t), "",
                                       "direct"))
    /\ UNCHANGED <<rows, registry, callers>>
    /\ UNCHANGED <<svars, rvars, xvars>>

\* CodexProvider.initialize: what it raises, the flag and whether keys
\* were sent, for the outcomes of wait_for_shell and wait_until_status.
\* timed_out names the wait that ran out.
codex_initialize(shell_ok, idle_ok, error_seen) ==
    IF ~shell_ok
    THEN [raised |-> "TimeoutError", initialized |-> FALSE,
          keys_sent |-> FALSE, timed_out |-> "shell"]
    ELSE IF ~idle_ok
         THEN [raised |-> "TimeoutError", initialized |-> FALSE,
               keys_sent |-> TRUE, timed_out |-> "idle"]
         ELSE [raised |-> "none", initialized |-> TRUE, keys_sent |-> TRUE,
               timed_out |-> "none"]

\* DroidProvider.initialize: the same two waits around send_keys.
droid_initialize(shell_ok, idle_ok, error_seen) ==
    IF ~shell_ok
    THEN [raised |-> "TimeoutError", initialized |-> FALSE,
          keys_sent |-> FALSE, timed_out |-> "shell"]
    ELSE IF ~idle_ok
         THEN [raised |-> "TimeoutError", initialized |-> FALSE,
               keys_sent |-> TRUE, timed_out |-> "idle"]
         ELSE [raised |-> "none", initialized |-> TRUE, keys_sent |-> TRUE,
               timed_out |-> "none"]

\* OpenAutoGLMProvider.initialize: no shell wait; send_keys, then the wait
\* for IDLE.  When it runs out, ProviderError (error text on screen) or
\* TimeoutError is raised inside the try block, and the except clause turns
\* either into ProviderError.
open_autoglm_initialize(shell_ok, idle_ok, error_seen) ==
    LET inner == IF idle_ok THEN "none"
                 ELSE IF error_seen THEN "ProviderError" ELSE "TimeoutError"
    IN IF inner # "none"
       THEN [raised |-> "ProviderError", initialized |-> FALSE,
             keys_sent |-> TRUE, timed_out |-> "idle"]
       ELSE [raised |-> "none", initialized |-> TRUE, keys_sent |-> TRUE,
             timed_out |-> "none"]

\* provider.initialize() by kind.
initialize(kind, shell_ok, idle_ok, error_seen) ==
    IF kind = "codex" THEN codex_initialize(shell_ok, idle_ok, error_seen)
    ELSE IF kind = "droid" THEN droid_initialize(shell_ok, idle_ok, error_seen)
    ELSE open_autoglm_initialize(shell_ok, idle_ok, error_seen)

\* initialize() is called on instance i, whatever its flag and whether or
\* not the manager still holds it; no other initialize() call is running on
\* the instance.  Codex and droid begin with wait_for_shell (cause
\* "shell_wait"), during which other threads run; open_autoglm sends its
\* launch command at once and begins its wait for IDLE (cause "waiting").
InitializeBegin(i) ==
    /\ i \in DOMAIN instances
    /\ instances[i].kind \in InitKinds
    /\ instances[i].cause \notin {"shell_wait", "waiting"}
    /\ instances' = [instances EXCEPT
                        ![i].keys_sent =
                            IF instances[i].kind = "open_autoglm"
                            THEN initialize(instances[i].kind, TRUE, TRUE,
                                            FALSE).keys_sent
                            ELSE @,
                        ![i].raised = "none",
                        ![i].cause = IF instances[i].kind = "open_autoglm"
                                     THEN "waiting" ELSE "shell_wait"]
    /\ UNCHANGED <<rows, registry, callers>>
    /\ UNCHANGED <<svars, rvars, xvars>>

\* wait_for_shell of the initialize() call on instance i (codex, droid)
\* ends: it ran out and the call raises, or the shell is ready, the launch
\* command is sent to the window and the call begins its wait for IDLE.
InitializeShell(i, shell_ok) ==
    /\ i \in DOMAIN instances
    /\ instances[i].cause = "shell_wait"
    /\ LET r == initialize(instances[i].kind, shell_ok, TRUE, FALSE)
       IN instances' = [instances EXCEPT
                           ![i].keys_sent = @ \/ r.keys_sent,
                           ![i].raised = IF r.timed_out = "shell"
                                         THEN r.raised ELSE "none",
                           ![i].cause = IF r.timed_out = "shell"
                                        THEN "shell" ELSE "waiting"]
    /\ UNCHANGED <<rows, registry, callers>>
    /\ UNCHANGED <<svars, rvars, xvars>>

\* The wait for IDLE of the initialize() call on instance i ends: IDLE was
\* seen and `self._initialized = True` is executed, whatever happened to
\* the object meanwhile, or the wait ran out (with an error text on the
\* screen or not) and the call raises without touching the flag.
InitializeEnd(i, idle_ok, error_seen) ==
    /\ i \in DOMAIN instances
    /\ instances[i].cause = "waiting"
    /\ LET r == initialize(instances[i].kind, TRUE, idle_ok, error_seen)
       IN instances' = [instances EXCEPT
                           ![i].initialized = IF r.raised = "none" THEN TRUE
                                              ELSE @,
                           ![i].raised = r.raised,
                           ![i].cause = IF r.timed_out = "none" THEN "ok"
                                        ELSE r.timed_out]
    /\ UNCHANGED <<rows, registry, callers>>
    /\ UNCHANGED <<svars, rvars, xvars>>

\* provider.cleanup() on an initialized instance outside the manager.
CleanupDirect(i) ==
    /\ i \in DOMAIN instances
    /\ instances[i].initialized
    /\ instances' = [instances EXCEPT ![i].initialized = FALSE]
    /\ UNCHANGED <<rows, registry, callers>>
    /\ UNCHANGED <<svars, rvars, xvars>>

\* The registry of a process in which nothing was created.
RegistryEmpty ==
    /\ rows = [t \in TIDs |-> NoRow]
    /\ registry = [t \in TIDs |-> 0]
    /\ instances = <<>>
    /\ callers = [c \in Callers |-> IdleCaller]

\* The registry after a restart: the store holds the rows of the terminals
\* created before (of any wire kind), the map is empty.
RegistryInit ==
    /\ \E ks \in [Terminals -> WireKinds \cup {"none"}] :
          rows = [t \in TIDs |-> IF t \notin Terminals \/ ks[t] = "none"
                                 THEN NoRow
                                 ELSE Row(ks[t], t, "dev")]
    /\ registry = [t \in TIDs |-> 0]
    /\ instances = <<>>
    /\ callers = [c \in Callers |-> IdleCaller]

\* --------------------------------------------------- log reader and threads
\* Most lines ever appended to the log of the reader model.
MaxGrow == 2

\* The threads that call sync_and_check, and the terminal whose log they read.
Readers == {"r1", "r2"}
RT == "t1"

\* The watcher hands a call to the first thread that is free.
FirstReader(g, r) == g = "r1" /\ r = "r2"

\* What the calls returned so far, kept as long as the log was only appended
\* to: the concatenation of the contents read, cut at a length no log of the
\* model reaches.
HistCap == 2 * MaxGrow + 1
Cut(s) == IF Len(s) <= HistCap THEN s ELSE SubSeq(s, 1, HistCap)

\* Thread r of the reader model takes the step of its sync_and_check call
\* that leaves program point p.
ReaderStep(r, p) ==
    /\ readers[r].pc = p
    /\ sync_enabled(readers[r], rlocks)
    /\ LET s == sync_step(readers[r], r, rfile, rpos, rbuf, rlocks, RT,
                          CodexIdlePatternLog, fed.cap)
       IN /\ readers' = [readers EXCEPT ![r] = s.rd]
          /\ rpos' = s.pos
          /\ rbuf' = s.buf
          /\ rlocks' = s.locks
    /\ UNCHANGED rfile
    /\ UNCHANGED <<svars, mvars, xvars>>

\* read_new_content up to the lock: no file, None is returned and
\* sync_and_check goes on to the pattern test; otherwise _get_file_lock looks
\* the id up in _file_locks.
ReadBegin(r) ==
    /\ readers[r].pc = "idle"
    /\ \A g \in Readers : FirstReader(g, r) => readers[g].pc # "idle"
    /\ readers' = [readers EXCEPT ![r] = sync_begin(rfile, rlocks)]
    /\ UNCHANGED <<rfile, rpos, rbuf, rlocks, rhist>>
    /\ UNCHANGED <<svars, mvars, xvars>>

\* _get_file_lock after `terminal_id not in self._file_locks` was true: a
\* new Lock is stored under the id.
LockCreate(r) == ReaderStep(r, "lock_create") /\ UNCHANGED rhist

\* _get_file_lock, `return self._file_locks[terminal_id]`: the Lock that is in
\* the dict now.
LockReturn(r) == ReaderStep(r, "lock_return") /\ UNCHANGED rhist

\* `with lock:` entered: the thread's Lock object is free and is taken.
LockAcquire(r) == ReaderStep(r, "acquire") /\ UNCHANGED rhist

\* Inside the lock: the file is opened, then
\* position_tracker.get_position(terminal_id).
GetPosition(r) == ReaderStep(r, "getpos") /\ UNCHANGED rhist

\* Inside the lock: f.seek(0, os.SEEK_END) and the truncation test.
FileSize(r) == ReaderStep(r, "size") /\ UNCHANGED rhist

\* Inside the lock: seek, read, tell.  When the read raises, the lock is
\* left and read_new_content returns None.
ReadChunk(r) ==
    /\ ReaderStep(r, "read")
    /\ rhist' = IF rhist.disturbed THEN rhist
                ELSE [rhist EXCEPT !.returned =
                        Cut(@ \o read_at(rfile, readers[r].stored).content)]

\* Inside the lock: set_position(new_pos); the lock is released and
\* read_new_content returns.  sync_and_check goes on to update_buffer when
\* the content is not empty.
SetPosition(r) == ReaderStep(r, "setpos") /\ UNCHANGED rhist

\* sync_and_check: update_buffer(terminal_id, new_content) up to its loop:
\* the buffer is looked up (and created), the content is split.
UpdateBuffer(r) == ReaderStep(r, "update") /\ UNCHANGED rhist

\* update_buffer: one turn of the loop, buffer.append(line).  No lock is
\* held, the threads' appends interleave.
AppendLine(r) == ReaderStep(r, "append") /\ UNCHANGED rhist

\* sync_and_check: matches_idle_pattern; None is returned when the buffer
\* does not match.
CheckPattern(r) == ReaderStep(r, "check") /\ UNCHANGED rhist

\* sync_and_check after a match: get_buffered_content, which is returned.
BufferedContent(r) == ReaderStep(r, "content") /\ UNCHANGED rhist

\* The caller takes the result and is free again.
SyncReturns(r) ==
    /\ readers[r].pc = "done"
    /\ readers' = [readers EXCEPT ![r] = IdleReader]
    /\ UNCHANGED <<rfile, rpos, rbuf, rlocks, rhist>>
    /\ UNCHANGED <<svars, mvars, xvars>>

\* The multiplexer starts piping the pane to <id>.log.
LogCreated ==
    /\ ~rfile.exists
    /\ rfile' = [exists |-> TRUE, data |-> <<>>]
    /\ UNCHANGED <<rpos, rbuf, rlocks, readers, rhist>>
    /\ UNCHANGED <<svars, mvars, xvars>>

\* A line of class k is appended to the log.
LogAppended(k) ==
    /\ rfile.exists
    /\ rhist.appended < MaxGrow
    /\ rfile' = [rfile EXCEPT !.data = @ \o LineChars(k) \o <<NL>>]
    /\ rhist' = [rhist EXCEPT !.appended = @ + 1]
    /\ UNCHANGED <<rpos, rbuf, rlocks, readers>>
    /\ UNCHANGED <<svars, mvars, xvars>>

\* The log is truncated (rotated) to its first n characters, whole lines.
LogTruncated(n) ==
    /\ rfile.exists
    /\ n < Len(rfile.data)
    /\ n % 2 = 0
    /\ rfile' = [rfile EXCEPT !.data = SubSeq(@, 1, n)]
    /\ rhist' = [rhist EXCEPT !.disturbed = TRUE, !.returned = <<>>]
    /\ UNCHANGED <<rpos, rbuf, rlocks, readers>>
    /\ UNCHANGED <<svars, mvars, xvars>>

\* No reader object: what the model keeps in place of a dropped reader that
\* no call is working on.
NoReader ==
    [pos |-> <<>>, buf |-> <<>>, locks |-> [dict |-> "none", held |-> {}],
     cap |-> 0]

\* The reader of a process that has read nothing; no log file yet.
ReaderEmpty ==
    /\ rfile = [exists |-> FALSE, data |-> <<>>]
    /\ rpos = <<>>
    /\ rbuf = <<>>
    /\ rlocks = [dict |-> "none", held |-> {}]
    /\ readers = [r \in Readers |-> IdleReader]
    /\ rhist = [returned |-> <<>>, disturbed |-> FALSE, appended |-> 0, calls |-> 0,
                old |-> NoReader]

\* ------------------------------------------------------- buffer capacity
\* Most lines fed to the buffer, and the largest capacity, of the buffer
\* model.
MaxFeed == 5
MaxCap == 3

\* The contents update_buffer is called with: nothing, a bare newline, whole
\* lines, a line without its newline, lines with blank lines between them.
Chunks ==
    {<<>>, <<NL>>, <<"p", NL>>, <<"x", NL>>, <<"x", "p">>,
     <<"p", NL, NL, "x", NL>>, <<"x", NL, "p", NL, "x", "p", NL>>}

\* No call made yet: a reader of the default capacity, no provider call, no
\* context file, launch not run.
NoProbe == [op |-> "none", inst |-> 0, status |-> "none", prev |-> "none", text |-> <<>>, tail |-> 0, prev_tail |-> 0]
NoLaunch == [ran |-> FALSE, posted |-> FALSE, provider |-> "", aborted |-> FALSE, explicit |-> "", profile |-> ""]

FedEmpty == fed = [cap |-> DefaultBufferLines, lines |-> <<>>]
ProbeEmpty == probe = NoProbe
\* The agent profiles of the model, and an agent-context file that does
\* not exist.
Profiles == {"developer", "reviewer"}
MissingFile == [exists |-> FALSE, provider |-> ""]
CliEmpty ==
    cli = [context |-> [a \in Profiles |-> MissingFile],
           installed |-> [a \in Profiles |-> ""],
           launch |-> NoLaunch]
ExtrasEmpty == FedEmpty /\ ProbeEmpty /\ CliEmpty

\* The lines the update_buffer calls in progress have still to append.
LinesPending ==
    Len(readers["r1"].lines) + Len(readers["r2"].lines)

\* Thread r calls update_buffer(RT, content) on a reader of capacity
\* fed.cap, up to the loop: nothing to do for an empty content; otherwise
\* the buffer is looked up (and created) and the content is split.
UpdateBufferCall(r, content) ==
    /\ readers[r].pc = "idle"
    /\ Len(fed.lines) + LinesPending + Len(NonEmptyLines(content)) <= MaxFeed
    /\ rbuf' = IF content = <<>> THEN rbuf ELSE get_buffer(rbuf, RT)
    /\ readers' = [readers EXCEPT ![r] =
                     IF NonEmptyLines(content) = <<>> THEN IdleReader
                     ELSE [IdleReader EXCEPT
                             !.pc = "feed",
                             !.content = content,
                             !.lines = NonEmptyLines(content)]]
    /\ UNCHANGED <<rfile, rpos, rlocks, rhist, xvars>>
    /\ UNCHANGED <<svars, mvars>>

\* update_buffer: one turn of the loop of thread r, buffer.append(line);
\* after the last line the call returns.  No lock is held in the loop, so
\* the appends of two callers interleave.  fed.lines keeps the lines in the
\* order they were appended.
FeedLine(r) ==
    /\ readers[r].pc = "feed"
    /\ rbuf' = [get_buffer(rbuf, RT) EXCEPT ![RT] =
                   LogBuffer_append(@, Head(readers[r].lines), fed.cap)]
    /\ fed' = [fed EXCEPT !.lines = Append(@, Head(readers[r].lines))]
    /\ readers' = [readers EXCEPT ![r] =
                     IF Tail(readers[r].lines) = <<>> THEN IdleReader
                     ELSE [@ EXCEPT !.lines = Tail(@)]]
    /\ UNCHANGED <<rfile, rpos, rlocks, rhist, probe, cli, acked, touched>>
    /\ UNCHANGED <<svars, mvars>>

\* ------------------------------------------ log reader, every public call
\* Most writes and rewrites of the log, and most calls of
\* sync_and_check, read_new_content, reset_terminal, clear_all,
\* reset_global_reader and the tracker's clear_all.
MaxSync == 3
MaxCalls == 2

\* The characters written to the log, and the pattern the calls look for.
LogChars == {"x", "p", NL}
SyncPattern == "p"

\* The log grows by one character: the multiplexer pipes the pane's bytes as
\* they come, so a read can find the log ending in the middle of a line.
LogWritten(c) ==
    /\ rfile.exists
    /\ rhist.appended < MaxSync
    /\ rfile' = [rfile EXCEPT !.data = Append(@, c)]
    /\ rhist' = [rhist EXCEPT !.appended = @ + 1]
    /\ UNCHANGED <<rpos, rbuf, rlocks, readers>>
    /\ UNCHANGED <<svars, mvars, xvars>>

\* Bookkeeping: from now on the contents read are no longer the prefix of
\* an append-only log that was buffered chunk by chunk.
Disturbed(hist) == [hist EXCEPT !.disturbed = TRUE, !.returned = <<>>]

\* The log is truncated to nothing, to be written anew.  probe remembers a
\* rewrite that fell between two calls (no call was in progress).
LogRewritten ==
    /\ rfile.exists
    /\ rfile.data # <<>>
    /\ rhist.appended < MaxSync
    /\ rfile' = [rfile EXCEPT !.data = <<>>]
    /\ rhist' = [Disturbed(rhist) EXCEPT !.appended = @ + 1]
    /\ probe' = IF \A g \in Readers : readers[g].pc = "idle"
                THEN [NoProbe EXCEPT !.op = "rewrite"]
                ELSE NoProbe
    /\ UNCHANGED <<rpos, rbuf, rlocks, readers, fed, cli, acked, touched>>
    /\ UNCHANGED <<svars, mvars>>

\* The reader object thread r works on: the one that get_log_reader()
\* returns now, or, for a call that was in progress when
\* reset_global_reader dropped its reader, the reader of before.
ReaderObject(r) ==
    IF readers[r].stale THEN rhist.old
    ELSE [pos |-> rpos, buf |-> rbuf, locks |-> rlocks, cap |-> fed.cap]

\* Thread r leaves its reader object as o, with bookkeeping hist.  A
\* dropped reader is forgotten when the last call on it returns.
StoreReader(r, o, hist, returns) ==
    IF readers[r].stale
    THEN /\ rhist' = [hist EXCEPT !.old =
                         IF returns /\ \A g \in Readers \ {r} : ~readers[g].stale
                         THEN NoReader ELSE o]
         /\ UNCHANGED <<rpos, rbuf, rlocks>>
    ELSE /\ rpos' = o.pos
         /\ rbuf' = o.buf
         /\ rlocks' = o.locks
         /\ rhist' = hist

\* Thread r calls method `call` (sync_and_check or read_new_content) for RT:
\* read_new_content up to the lock.  read_new_content without a file
\* returns None at once.  A call that begins while another is in progress
\* ends the collection of rhist.returned.
BeginRead(r, call) ==
    /\ readers[r].pc = "idle"
    /\ \A g \in Readers : FirstReader(g, r) => readers[g].pc # "idle"
    /\ rhist.calls < MaxCalls
    /\ readers' = [readers EXCEPT ![r] =
                     IF call = "read" /\ ~rfile.exists THEN IdleReader
                     ELSE [sync_begin(rfile, rlocks) EXCEPT !.call = call]]
    /\ rhist' = [(IF \A g \in Readers : readers[g].pc = "idle" THEN rhist
                  ELSE Disturbed(rhist)) EXCEPT !.calls = @ + 1]
    /\ UNCHANGED <<rfile, rpos, rbuf, rlocks>>
    /\ UNCHANGED <<svars, mvars>>

\* sync_and_check(RT, SyncPattern) is called by thread r.
SyncCall(r) == BeginRead(r, "sync") /\ UNCHANGED xvars

\* read_new_content(RT) is called by thread r, without update_buffer.
ReadCall(r) == BeginRead(r, "read") /\ UNCHANGED xvars

\* One further step of thread r's sync_and_check or read_new_content call
\* (see sync_step): read_new_content returns after set_position (or with
\* None), sync_and_check after the pattern test or get_buffered_content.
\* rhist.returned collects the contents read; a content that is read and
\* not buffered ends the collection.  probe keeps that a read took place
\* and, when a call returns, what it was and, for sync_and_check, whether
\* it returned content (found) or None.
SyncStep(r) ==
    /\ readers[r].call \in {"sync", "read"}
    /\ LET rd == readers[r]
           o == ReaderObject(r)
           s == sync_step(rd, r, rfile, o.pos, o.buf, o.locks, RT, SyncPattern,
                          o.cap)
           returns == \/ s.rd.pc = "done"
                      \/ rd.call = "read" /\ s.rd.pc \in {"update", "check"}
           hist == IF rd.pc # "read" \/ s.rd.pc # "setpos" \/ rhist.disturbed
                   THEN rhist
                   ELSE IF rd.call = "read" /\ s.rd.content # <<>>
                   THEN Disturbed(rhist)
                   ELSE [rhist EXCEPT !.returned = @ \o s.rd.content]
       IN /\ sync_enabled(rd, o.locks)
          /\ readers' = [readers EXCEPT ![r] =
                           IF returns THEN IdleReader ELSE s.rd]
          /\ StoreReader(r, [pos |-> s.pos, buf |-> s.buf, locks |-> s.locks,
                             cap |-> o.cap],
                         IF rd.stale THEN rhist ELSE hist, returns)
          /\ probe' = IF rd.stale THEN probe
                      ELSE IF returns
                      THEN [NoProbe EXCEPT
                               !.op = rd.call,
                               !.status = IF rd.call = "read" THEN "none"
                                          ELSE IF s.rd.found THEN "found"
                                          ELSE "none"]
                      ELSE IF rd.pc = "read"
                      THEN [NoProbe EXCEPT !.op = "reading"]
                      ELSE probe
    /\ UNCHANGED <<rfile, fed, cli, acked, touched>>
    /\ UNCHANGED <<svars, mvars>>

\* reset_terminal(RT) is called by thread r: line 340,
\* position_tracker.reset_position.
ResetCall(r) ==
    /\ readers[r].pc = "idle"
    /\ \A g \in Readers : FirstReader(g, r) => readers[g].pc # "idle"
    /\ rhist.calls < MaxCalls
    /\ readers' = [readers EXCEPT ![r] =
                     [IdleReader EXCEPT !.pc = "reset_buf", !.call = "reset"]]
    /\ rpos' = reset_position(rpos, RT)
    /\ rhist' = [Disturbed(rhist) EXCEPT !.calls = @ + 1]
    /\ probe' = NoProbe
    /\ UNCHANGED <<rfile, rbuf, rlocks, fed, cli, acked, touched>>
    /\ UNCHANGED <<svars, mvars>>

\* reset_terminal, lines 341-344: under _buffers_lock the id's LogBuffer, if
\* there is one, is cleared; the call returns.  probe remembers a reset that
\* returned while no other call was in progress.
ResetClear(r) ==
    /\ readers[r].pc = "reset_buf"
    /\ LET o == ReaderObject(r)
       IN StoreReader(r, [o EXCEPT !.buf = clear_buffer(o.buf, RT)], rhist, TRUE)
    /\ readers' = [readers EXCEPT ![r] = IdleReader]
    /\ probe' = IF readers[r].stale THEN probe
                ELSE IF \A g \in Readers \ {r} : readers[g].pc = "idle"
                THEN [NoProbe EXCEPT !.op = "reset"]
                ELSE NoProbe
    /\ UNCHANGED <<rfile, fed, cli, acked, touched>>
    /\ UNCHANGED <<svars, mvars>>

\* O1LogReader.clear_all() (call "clear") or reset_global_reader() (call
\* "global", which holds _global_lock: one such call at a time, and the
\* model follows one dropped reader at a time) is called by thread r: line
\* 348, position_tracker.clear_all(), every id's position is forgotten.
BeginClear(r, call) ==
    /\ readers[r].pc = "idle"
    /\ \A g \in Readers : FirstReader(g, r) => readers[g].pc # "idle"
    /\ rhist.calls < MaxCalls
    /\ call = "global" =>
          /\ \A g \in Readers : readers[g].call # "global"
          /\ rhist.old = NoReader
    /\ readers' = [readers EXCEPT ![r] =
                     [IdleReader EXCEPT !.pc = "clear_buf", !.call = call]]
    /\ rpos' = <<>>
    /\ rhist' = [Disturbed(rhist) EXCEPT !.calls = @ + 1]
    /\ probe' = NoProbe
    /\ UNCHANGED <<rfile, rbuf, rlocks, fed, cli, acked, touched>>

\* O1LogReader.clear_all() is called by thread r.
ClearAllCall(r) == BeginClear(r, "clear") /\ UNCHANGED <<svars, mvars>>

\* reset_global_reader() is called by thread r.
ResetGlobalReaderCall(r) ==
    BeginClear(r, "global") /\ UNCHANGED <<svars, mvars>>

\* clear_all, lines 349-350: under _buffers_lock every LogBuffer is removed
\* from _buffers.  A thread of the same reader inside update_buffer's loop
\* keeps the object it holds, now detached.  clear_all returns;
\* reset_global_reader goes on to line 381.
ClearAllBuffers(r) ==
    /\ readers[r].pc = "clear_buf"
    /\ LET o == ReaderObject(r)
       IN StoreReader(r, [o EXCEPT !.buf = <<>>], rhist,
                      readers[r].call = "clear")
    /\ readers' = [g \in Readers |->
                     IF g = r
                     THEN IF readers[r].call = "global"
                          THEN [readers[r] EXCEPT !.pc = "drop"]
                          ELSE IdleReader
                     ELSE IF /\ readers[g].pc = "append"
                             /\ readers[g].stale = readers[r].stale
                     THEN [readers[g] EXCEPT !.detached = TRUE]
                     ELSE readers[g]]
    /\ UNCHANGED <<rfile, xvars>>
    /\ UNCHANGED <<svars, mvars>>

\* reset_global_reader, line 381: _global_reader = None.  The calls in
\* progress go on with the reader they hold (rhist.old); get_log_reader()
\* constructs O1LogReader() for the next caller: nothing read, no locks, the
\* default capacity.
DropGlobalReader(r) ==
    /\ readers[r].pc = "drop"
    /\ LET inflight == {g \in Readers \ {r} : readers[g].pc # "idle"}
       IN /\ readers' = [g \in Readers |->
                           IF g = r THEN IdleReader
                           ELSE IF g \in inflight
                           THEN [readers[g] EXCEPT !.stale = TRUE]
                           ELSE readers[g]]
          /\ rhist' = [rhist EXCEPT !.old =
                          IF inflight = {} THEN NoReader
                          ELSE [pos |-> rpos, buf |-> rbuf, locks |-> rlocks,
                                cap |-> fed.cap]]
    /\ rpos' = <<>>
    /\ rbuf' = <<>>
    /\ rlocks' = [dict |-> "none", held |-> {}]
    /\ fed' = [fed EXCEPT !.cap = DefaultBufferLines]
    /\ probe' = NoProbe
    /\ UNCHANGED <<rfile, cli, acked, touched>>
    /\ UNCHANGED <<svars, mvars>>

\* FilePositionTracker.clear_all() is called on the reader's tracker.
TrackerClearAll ==
    /\ rhist.calls < MaxCalls
    /\ rpos # <<>>
    /\ rpos' = <<>>
    /\ rhist' = [Disturbed(rhist) EXCEPT !.calls = @ + 1]
    /\ probe' = NoProbe
    /\ UNCHANGED <<rfile, rbuf, rlocks, readers, fed, cli, acked, touched>>
    /\ UNCHANGED <<svars, mvars>>

\* get_buffered_content(RT) is called: _get_buffer creates the id's
\* LogBuffer when there is none.
GetBufferedContentCall ==
    /\ rbuf' = get_buffer(rbuf, RT)
    /\ UNCHANGED <<rfile, rpos, rlocks, readers, rhist, xvars>>
    /\ UNCHANGED <<svars, mvars>>

\* matches_idle_pattern(RT, pattern) is called: without a pattern False is
\* returned before the buffer is looked up.
MatchesIdlePatternCall(pattern) ==
    /\ rbuf' = matches_idle_pattern(rbuf, RT, pattern).buf
    /\ UNCHANGED <<rfile, rpos, rlocks, readers, rhist, xvars>>
    /\ UNCHANGED <<svars, mvars>>

\* A reader of some capacity that has read the log "p\n" of another
\* terminal and nothing of RT's.
SyncReader ==
    /\ rfile = [exists |-> FALSE, data |-> <<>>]
    /\ rpos = read_new_content([exists |-> TRUE, data |-> <<"p", NL>>],
                               <<>>, "t2").pos
    /\ rbuf = update_buffer(<<>>, "t2", <<"p", NL>>)
    /\ rlocks = [dict |-> "none", held |-> {}]
    /\ readers = [r \in Readers |-> IdleReader]
    /\ rhist = [returned |-> <<>>, disturbed |-> FALSE, appended |-> 0, calls |-> 0,
                old |-> NoReader]
    /\ \E n \in {1, DefaultBufferLines} : fed = [cap |-> n, lines |-> <<>>]

\* ---------------------------------------------------------- provider calls
\* Most lines on the screen (beyond a screenful of plain text) in the model
\* of the three parsers, of the codex parser, and of the frame model.
MaxLines == 3
MaxCodexLines == 4
MaxFrameLines == 2

\* The lines the window shows in each of those models.
ScreenKinds ==
    {"PROMPT", "GT", "YOU", "USER", "ASSIST", "ASSIST_EMPTY", "ERR", "APPROVE",
     "TEXT", "FAILED", "BLANK", "ANSI_GT", "BOX_GT", "BOX_RULE", "ENTER"}
CodexKinds ==
    {"PROMPT", "YOU", "USER", "ASSIST", "ERR", "APPROVE", "TEXT", "BLANK"}
FrameKinds == {"GT", "TEXT"}

\* DroidProvider._normalize_output, line by line: colour codes and
\* box-drawing characters are removed.
droid_normalize_line(k) ==
    IF k \in {"ANSI_GT", "BOX_GT"} THEN "GT"
    ELSE IF k = "BOX_RULE" THEN "BLANK"
    ELSE k

droid_normalize_output(output) ==
    [i \in DOMAIN output |-> droid_normalize_line(output[i])]

\* re.finditer(PROMPT_PATTERN, clean_output, re.MULTILINE): the lines that
\* are ">" with nothing but whitespace around it.
droid_prompts(clean_output) ==
    {i \in DOMAIN clean_output : clean_output[i] = "GT"}

\* (mutant) a single prompt already counts as a completed reply.
droid_get_status_OnePromptCompleted(output) ==
    IF no_output(output) THEN "ERROR"
    ELSE LET clean_output == droid_normalize_output(output)
             prompts == droid_prompts(clean_output)
         IN IF prompts = {} THEN "PROCESSING"
            ELSE IF Cardinality(prompts) >= 1 THEN "COMPLETED"
            ELSE "IDLE"

\* DroidProvider.get_status
droid_get_status(output) ==
    IF no_output(output) THEN "ERROR"
    ELSE LET clean_output == droid_normalize_output(output)
             prompts == droid_prompts(clean_output)
         IN IF prompts = {} THEN "PROCESSING"
            ELSE IF Cardinality(prompts) >= 2 THEN "COMPLETED"
            ELSE "IDLE"

\* re.search(pattern, output) for a pattern that the lines of the classes
\* in S (and no others) contain.
Found(output, S) == \E i \in DOMAIN output : output[i] \in S

\* OpenAutoGLMProvider.get_status: the raw output is searched, ERROR_PATTERN
\* (Error, Failed, ... with re.IGNORECASE) first.
open_autoglm_get_status(output) ==
    IF no_output(output) THEN "ERROR"
    ELSE IF Found(output, {"ERR", "FAILED"}) THEN "ERROR"
    ELSE IF Found(output, {"THINK"}) THEN "PROCESSING"
    ELSE IF Found(output, {"ACTION"}) THEN "PROCESSING"
    ELSE IF /\ Found(output, {"RESULT"}) \/ Found(output, {"DONE"})
            /\ Found(output, {"ENTER"})
         THEN "COMPLETED"
    ELSE IF Found(output, {"INTERACTIVE"}) \/ Found(output, {"ENTER"})
         THEN "IDLE"
    ELSE "ERROR"

\* provider.get_status() by kind, over the history the multiplexer returns.
provider_get_status(kind, output) ==
    IF kind = "codex" THEN codex_get_status(output)
    ELSE IF kind = "droid" THEN droid_get_status(output)
    ELSE open_autoglm_get_status(output)

\* str.strip() on a text given as lines: the blank lines at both ends go.
Strip(text) ==
    LET nb == {i \in DOMAIN text : ~IsBlankLine(text[i])} IN
    IF nb = {} THEN <<>> ELSE SubSeq(text, Min(nb), Max(nb))

\* CodexProvider.extract_last_message_from_script: [raised, text].  The text
\* starts behind the last assistant marker ("REPLY" stands for what follows
\* the marker on its line) and ends before the idle prompt at the end.
codex_extract_last_message_from_script(script_output) ==
    LET clean_output == clean(script_output)
        matches == {i \in DOMAIN clean_output : IsAssistantLine(clean_output[i])}
    IN
    IF matches = {}
    THEN [raised |-> "ValueError: No Codex response found", text |-> <<>>]
    ELSE LET last_match == Max(matches)
             rest == IF clean_output[last_match] = "ASSIST" THEN "REPLY"
                     ELSE "BLANK"
             after == <<rest>> \o SubSeq(clean_output, last_match + 1,
                                         Len(clean_output))
             end_pos == IF has_idle_prompt_at_end(after)
                        THEN Max({i \in DOMAIN after : IsPromptLine(after[i])}) - 1
                        ELSE Len(after)
             final_answer == Strip(SubSeq(after, 1, end_pos))
         IN IF final_answer = <<>>
            THEN [raised |-> "ValueError: Empty Codex response", text |-> <<>>]
            ELSE [raised |-> "", text |-> final_answer]

\* (mutant) the text between the last two prompts is returned even when
\* nothing is left of it.
droid_extract_last_message_from_script_ReturnsEmpty(script_output) ==
    LET clean_output == droid_normalize_output(script_output)
        prompts == droid_prompts(clean_output)
    IN
    IF Cardinality(prompts) < 2
    THEN [raised |-> "ValueError: No complete Droid response found",
          text |-> <<>>]
    ELSE LET last_prompt == Max(prompts)
             prev_prompt == Max(prompts \ {last_prompt})
         IN [raised |-> "",
             text |-> Strip(SubSeq(clean_output, prev_prompt + 1,
                                   last_prompt - 1))]

\* DroidProvider.extract_last_message_from_script: [raised, text], the text
\* between the last two prompts.
droid_extract_last_message_from_script(script_output) ==
    LET clean_output == droid_normalize_output(script_output)
        prompts == droid_prompts(clean_output)
    IN
    IF Cardinality(prompts) < 2
    THEN [raised |-> "ValueError: No complete Droid response found",
          text |-> <<>>]
    ELSE LET last_prompt == Max(prompts)
             prev_prompt == Max(prompts \ {last_prompt})
             final_answer == Strip(SubSeq(clean_output, prev_prompt + 1,
                                          last_prompt - 1))
         IN IF final_answer = <<>>
            THEN [raised |-> "ValueError: Empty Droid response", text |-> <<>>]
            ELSE [raised |-> "", text |-> final_answer]

\* provider.extract_last_message_from_script() by kind.
extract_last_message_from_script(kind, script_output) ==
    IF kind = "codex" THEN codex_extract_last_message_from_script(script_output)
    ELSE droid_extract_last_message_from_script(script_output)

\* The lines on the screen beyond a screenful of plain text.
ShortLines == 
    IF Len(scrollback[RT]) >= StatusTailLines
    THEN Len(scrollback[RT]) - StatusTailLines
    ELSE Len(scrollback[RT])

\* The class of a line of class k after ordinary text (" hi") is written
\* behind it: a prompt line is no longer a prompt alone on its line
\* ("> hi", "You> hi" is a user line), a marker alone on its line has a text,
\* an empty line or a frame rule holds text; the patterns that match at the
\* start or anywhere in a line still match.
typed_line(k) ==
    IF k \in {"PROMPT", "GT", "ANSI_GT", "BOX_GT", "BOX_RULE", "BLANK"} THEN "TEXT"
    ELSE IF k = "YOU" THEN "USER"
    ELSE IF k = "ASSIST_EMPTY" THEN "ASSIST"
    ELSE k

\* The window of RT receives output (at most max_lines lines in a run of the
\* model): with fresh a new line of class k begins; without it ordinary
\* text is written on the last line of the screen, which is the agent going
\* on with a line or the input typed at the prompt.  What the last provider
\* call returned is about an older screen and is forgotten.
ScreenOutput(k, fresh, max_lines) ==
    /\ IF fresh THEN ShortLines < max_lines
       ELSE /\ k = "TEXT"
            /\ scrollback[RT] # <<>>
            /\ typed_line(scrollback[RT][Len(scrollback[RT])])
                  # scrollback[RT][Len(scrollback[RT])]
    /\ scrollback' = [scrollback EXCEPT ![RT] =
                         IF fresh THEN Append(@, k)
                         ELSE [@ EXCEPT ![Len(@)] = typed_line(@)]]
    /\ probe' = NoProbe
    /\ UNCHANGED <<metadata, msgs, window, logfile, events, providers, pos,
                   buf, handlers, life, sent>>
    /\ UNCHANGED <<mvars, rvars, fed, cli, acked, touched>>

\* The agent prints a screenful (StatusTailLines lines) of plain text.
ScreenfulOutput ==
    /\ Len(scrollback[RT]) < StatusTailLines
    /\ scrollback' = [scrollback EXCEPT ![RT] =
                         @ \o [i \in 1..StatusTailLines |-> "TEXT"]]
    /\ probe' = NoProbe
    /\ UNCHANGED <<metadata, msgs, window, logfile, events, providers, pos,
                   buf, handlers, life, sent>>
    /\ UNCHANGED <<mvars, rvars, fed, cli, acked, touched>>

\* (mutant) get_status marks the provider initialized when it sees it idle.
GetStatusCall_MarksInitialized(i, tail_lines) ==
    /\ i \in DOMAIN instances
    /\ instances[i].kind \in InitKinds
    /\ LET st == provider_get_status(
                     instances[i].kind,
                     history_tail(scrollback[instances[i].tid], tail_lines))
           again == probe.op = "get_status" /\ probe.inst = i
       IN /\ probe' = [op |-> "get_status", inst |-> i, status |-> st,
                       prev |-> IF again THEN probe.status ELSE "none",
                       text |-> <<>>, tail |-> tail_lines,
                       prev_tail |-> IF again THEN probe.tail ELSE 0]
          /\ instances' = IF st = "IDLE"
                          THEN [instances EXCEPT ![i].initialized = TRUE]
                          ELSE instances
    /\ UNCHANGED <<rows, registry, callers>>
    /\ UNCHANGED <<svars, rvars, fed, cli, acked, touched>>

\* The tail_lines that get_status is called with: None (written 0) by
\* wait_until_status and the callers that pass nothing, and
\* INBOX_SERVICE_TAIL_LINES by check_and_send_pending_messages.
TailArgs == {0, INBOX_SERVICE_TAIL_LINES}

\* provider.get_status(tail_lines) on instance i: the last tail_lines lines
\* of its window's history (all of it for None) are read and parsed.  prev
\* and prev_tail are the status the same instance returned for the same
\* screen just before, if it was asked, and the tail_lines of that call.
GetStatusCall(i, tail_lines) ==
    /\ i \in DOMAIN instances
    /\ instances[i].kind \in InitKinds
    /\ LET again == probe.op = "get_status" /\ probe.inst = i
       IN probe' = [op |-> "get_status", inst |-> i,
                    status |-> provider_get_status(
                                  instances[i].kind,
                                  history_tail(scrollback[instances[i].tid],
                                               tail_lines)),
                    prev |-> IF again THEN probe.status ELSE "none",
                    text |-> <<>>, tail |-> tail_lines,
                    prev_tail |-> IF again THEN probe.tail ELSE 0]
    /\ UNCHANGED <<svars, mvars, rvars, fed, cli, acked, touched>>

\* provider.extract_last_message_from_script(history) on a codex or droid
\* instance: status records what it raised, text what it returned.
ExtractCall(i) ==
    /\ i \in DOMAIN instances
    /\ instances[i].kind \in {"codex", "droid"}
    /\ LET r == extract_last_message_from_script(
                    instances[i].kind, scrollback[instances[i].tid])
       IN probe' = [op |-> "extract", inst |-> i, status |-> r.raised,
                    prev |-> "none", text |-> r.text, tail |-> 0,
                    prev_tail |-> 0]
    /\ UNCHANGED <<svars, mvars, rvars, fed, cli, acked, touched>>

\* provider.exit_cli() by kind: the command that exits the agent.
exit_cli(kind) ==
    IF kind = "codex" THEN "/exit"
    ELSE IF kind = "droid" THEN "/quit"
    ELSE "quit"

\* provider.exit_cli() on instance i: status records the command returned.
ExitCliCall(i) ==
    /\ i \in DOMAIN instances
    /\ instances[i].kind \in InitKinds
    /\ probe' = [op |-> "exit_cli", inst |-> i,
                 status |-> exit_cli(instances[i].kind),
                 prev |-> "none", text |-> <<>>, tail |-> 0, prev_tail |-> 0]
    /\ UNCHANGED <<svars, mvars, rvars, fed, cli, acked, touched>>

\* One provider object of each kind of the source tree, constructed for the
\* window of RT and not given to the manager.
ProbeObjects ==
    /\ rows = [t \in TIDs |-> NoRow]
    /\ registry = [t \in TIDs |-> 0]
    /\ callers = [c \in Callers |-> IdleCaller]
    /\ instances = <<NewProvider("codex", RT, Session(RT), Window(RT), "", "direct"),
                     NewProvider("droid", RT, Session(RT), Window(RT), "", "direct"),
                     NewProvider("open_autoglm", RT, Session(RT), Window(RT), "", "direct")>>

\* ------------------------------------------------------ install and launch
\* constants.PROVIDERS and constants.DEFAULT_PROVIDER.
PROVIDERS == WireKinds
DEFAULT_PROVIDER == "q_cli"

\* What --provider can be on the command line: "" stands for an option
\* that is not given, "bogus" for a name outside PROVIDERS.
LaunchOptions == PROVIDERS \cup {"", "bogus"}
InstallOptions == PROVIDERS \cup {""}

\* Python's `a or b` on strings and None ("" stands for both).
Or(a, b) == IF a # "" THEN a ELSE b

\* write_context_with_provider: the context file of dest is written with
\* provider in its frontmatter.
write_context_with_provider(context, provider, dest) ==
    [context EXCEPT ![dest] = [exists |-> TRUE, provider |-> provider]]

\* get_context_provider: the provider in the frontmatter of the context
\* file of agent_profile, None ("") without file or without a string there.
get_context_provider(context, agent_profile) ==
    IF ~context[agent_profile].exists THEN ""
    ELSE context[agent_profile].provider

\* (mutant) the provider of the context file wins over --provider.
selected_provider_ContextFirst(context, agents, provider) ==
    Or(get_context_provider(context, agents), Or(provider, DEFAULT_PROVIDER))

\* launch, line 23: provider or get_context_provider(agents) or DEFAULT_PROVIDER
selected_provider(context, agents, provider) ==
    Or(provider, Or(get_context_provider(context, agents), DEFAULT_PROVIDER))

\* cao install <agent> [--provider p]: click fills in DEFAULT_PROVIDER and
\* admits only PROVIDERS; the context file of the profile is written.
\* installed remembers what was asked for.
InstallCall(profile, option) ==
    LET provider == Or(option, DEFAULT_PROVIDER) IN
    /\ provider \in PROVIDERS
    /\ cli' = [context |-> write_context_with_provider(cli.context, provider,
                                                       profile),
               installed |-> [cli.installed EXCEPT ![profile] = provider],
               launch |-> NoLaunch]
    /\ UNCHANGED <<svars, mvars, rvars, fed, probe, acked, touched>>

\* cao launch --agents <agents> [--provider p]: a provider outside
\* PROVIDERS raises before requests.post; otherwise the create-session
\* request is sent with the selected provider.
LaunchCall(agents, provider) ==
    LET selected == selected_provider(cli.context, agents, provider) IN
    /\ cli' = [cli EXCEPT !.launch =
                  IF selected \notin PROVIDERS
                  THEN [ran |-> TRUE, posted |-> FALSE, provider |-> "",
                        aborted |-> TRUE, explicit |-> provider,
                        profile |-> agents]
                  ELSE [ran |-> TRUE, posted |-> TRUE, provider |-> selected,
                        aborted |-> FALSE, explicit |-> provider,
                        profile |-> agents]]
    /\ UNCHANGED <<svars, mvars, rvars, fed, probe, acked, touched>>

\* ------------------------------------------------------------ specification
\* The process after start: an empty store, no window, no provider, a reader
\* that tracks nothing, idle watcher threads.
SchedulerInit ==
    /\ metadata = [t \in TIDs |-> NoMeta]
    /\ msgs = <<>>
    /\ window = [t \in TIDs |-> FALSE]
    /\ scrollback = [t \in TIDs |-> <<>>]
    /\ logfile = [t \in TIDs |-> [exists |-> FALSE, data |-> <<>>]]
    /\ events = [t \in TIDs |-> FALSE]
    /\ providers = [t \in TIDs |-> NoProvider]
    /\ pos = <<>>
    /\ buf = <<>>
    /\ handlers = [h \in Handlers |-> IdleHandler]
    /\ life = [t \in TIDs |-> "none"]
    /\ sent = <<>>
    /\ acked = {}
    /\ touched = 0

\* The scheduler's runs start like SchedulerInit, with an inbox that is
\* empty or holds a message for a recipient that is not a terminal.
Init ==
    /\ metadata = [t \in TIDs |-> NoMeta]
    /\ msgs \in {<<>>, <<[receiver |-> "t2", status |-> "PENDING"]>>}
    /\ window = [t \in TIDs |-> FALSE]
    /\ scrollback = [t \in TIDs |-> <<>>]
    /\ logfile = [t \in TIDs |-> [exists |-> FALSE, data |-> <<>>]]
    /\ events = [t \in TIDs |-> FALSE]
    /\ providers = [t \in TIDs |-> NoProvider]
    /\ pos = <<>>
    /\ buf = <<>>
    /\ handlers = [h \in Handlers |-> IdleHandler]
    /\ life = [t \in TIDs |-> "none"]
    /\ sent = [m \in 1..Len(msgs) |-> 0]
    /\ acked = {}
    /\ touched = 0
    /\ RegistryEmpty /\ ReaderEmpty /\ ExtrasEmpty

HandlerStep(h) ==
    \/ \E t \in TIDs : HandleLogChange(h, t)
    \/ ProviderLookup(h)
    \/ ProviderMetadata(h)
    \/ ProviderCreate(h)
    \/ SyncAndCheckStep(h)
    \/ CheckPending(h)
    \/ CheckStatus(h)
    \/ \E ok \in BOOLEAN : SendInput(h, ok)
    \/ MarkDelivered(h)
    \/ MarkFailed(h)

\* The watcher threads, the callers that enqueue messages for the terminal,
\* the agent, and create_terminal / destroy_terminal: every modification
\* report follows a write of the agent.
QuietNext ==
    \/ \E h \in Handlers : HandlerStep(h)
    \/ \E t \in Terminals : EnqueueMessage(t)
    \/ \E t \in TIDs, k \in OutKinds : AgentOutput(t, k)
    \/ \E t \in Terminals : CreateTerminal(t)
    \/ \E t \in Terminals : InitializeOk(t)
    \/ \E t \in Terminals : InitializeTimeout(t)
    \/ \E t \in Terminals : TearDown(t)
    \/ \E t \in Terminals : DestroyCleanupProvider(t)
    \/ \E t \in Terminals : DestroyWindow(t)
    \/ \E t \in Terminals : DestroyMetadata(t)
    \/ \E t \in Terminals : DestroyResetReader(t)
    \/ \E t \in Terminals : DestroyClearBuffer(t)

Next == QuietNext

Spec == Init /\ [][Next]_vars

\* The process after a restart: the terminal created by the process before
\* is in the store, its window shows the agent's prompt, its log holds that
\* prompt; the provider map and the reader are empty.
InboxInit ==
    /\ metadata = [t \in TIDs |->
                     IF t \in Terminals
                     THEN [provider |-> "codex", agent_profile |-> "dev"]
                     ELSE NoMeta]
    /\ msgs = <<>>
    /\ window = [t \in TIDs |-> t \in Terminals]
    /\ scrollback = [t \in TIDs |-> IF t \in Terminals THEN <<"PROMPT">>
                                     ELSE <<>>]
    /\ logfile = [t \in TIDs |->
                    IF t \in Terminals
                    THEN [exists |-> TRUE, data |-> LineChars("PROMPT") \o <<NL>>]
                    ELSE [exists |-> FALSE, data |-> <<>>]]
    /\ events = [t \in TIDs |-> FALSE]
    /\ providers = [t \in TIDs |-> NoProvider]
    /\ pos = <<>>
    /\ buf = <<>>
    /\ handlers = [h \in Handlers |-> IdleHandler]
    /\ life = [t \in TIDs |-> IF t \in Terminals THEN "ready" ELSE "none"]
    /\ sent = <<>>
    /\ acked = {}
    /\ touched = 0
    /\ RegistryEmpty /\ ReaderEmpty /\ ExtrasEmpty

\* The watcher threads with modification reports that come without a new
\* line, direct calls of check_and_send_pending_messages, the callers that
\* enqueue messages, the agent, and destroy_terminal.
InboxNext ==
    \/ \E h \in Handlers : HandlerStep(h)
    \/ \E h \in Handlers, t \in Terminals : CheckAndSendCall(h, t)
    \/ \E t \in TIDs : LogTouched(t)
    \/ \E t \in Terminals : EnqueueMessage(t)
    \/ \E t \in TIDs, k \in OutKinds : AgentOutput(t, k)
    \/ \E t \in Terminals : DestroyCleanupProvider(t)
    \/ \E t \in Terminals : DestroyWindow(t)
    \/ \E t \in Terminals : DestroyMetadata(t)
    \/ \E t \in Terminals : DestroyResetReader(t)
    \/ \E t \in Terminals : DestroyClearBuffer(t)

InboxSpec == InboxInit /\ [][InboxNext]_vars

\* The scheduler with a store whose status writes can fail.
DeliveryNext ==
    \/ QuietNext
    \/ \E h \in Handlers, failed_ok \in BOOLEAN : MarkDeliveredRaises(h, failed_ok)

DeliverySpec == Init /\ [][DeliveryNext]_vars

\* The watcher's threads keep running, with modification reports that
\* follow writes only and a store whose status writes can fail: every step
\* of a callback that stays enabled is eventually taken (weak fairness; for
\* SyncAndCheckStep it is written out with the state predicate SyncWaits,
\* which is its ENABLED, since the step always moves the thread; a thread
\* at the DELIVERED write leaves it by MarkDelivered or by
\* MarkDeliveredRaises).  Nothing obliges the environment (agents, callers,
\* the file system, the store) to act or to succeed.
FairSpec ==
    /\ Init /\ [][DeliveryNext]_vars
    /\ \A h \in Handlers :
          /\ WF_vars(\E t \in TIDs : HandleLogChange(h, t))
          /\ \/ []<>(~SyncWaits(h))
             \/ []<><<SyncAndCheckStep(h)>>_vars
          /\ WF_vars(ProviderLookup(h))
          /\ WF_vars(ProviderMetadata(h))
          /\ WF_vars(ProviderCreate(h))
          /\ WF_vars(CheckPending(h))
          /\ WF_vars(CheckStatus(h))
          /\ WF_vars(\E ok \in BOOLEAN : SendInput(h, ok))
          /\ WF_vars(MarkDelivered(h))
          /\ WF_vars(MarkFailed(h))

\* The provider registry after a restart, with concurrent callers.
RegistryNext ==
    \/ \E c \in Callers, t \in TIDs : GetProviderLookup(c, t)
    \/ \E c \in Callers : GetProviderMetadata(c)
    \/ \E c \in Callers : GetProviderCreate(c)
    \/ \E c \in Callers : CallReturns(c)
    \/ \E c \in Callers, t \in TIDs, a \in CreateArgs :
          CreateProviderCall(c, t, a[1], a[2])
    \/ \E t \in TIDs : CleanupProviderCall(t)
    \/ \E i \in 1..MaxInst : InitializeBegin(i)
    \/ \E i \in 1..MaxInst : InitializeShell(i, TRUE)
    \/ \E i \in 1..MaxInst, idle_ok \in BOOLEAN :
          InitializeEnd(i, idle_ok, FALSE)

\* The process after a restart over a populated store.
RestartInit == SchedulerInit /\ RegistryInit /\ ReaderEmpty /\ ExtrasEmpty

RegistrySpec == RestartInit /\ [][RegistryNext]_vars

\* Provider objects of the three kinds of the source tree, constructed,
\* initialized (with every outcome of the two waits) and cleaned up.
ProviderNext ==
    \/ \E kind \in InitKinds, t \in TIDs : ConstructDirect(kind, t)
    \/ \E i \in 1..MaxInst : InitializeBegin(i)
    \/ \E i \in 1..MaxInst, shell_ok \in BOOLEAN : InitializeShell(i, shell_ok)
    \/ \E i \in 1..MaxInst, idle_ok, error_seen \in BOOLEAN :
          InitializeEnd(i, idle_ok, error_seen)
    \/ \E i \in 1..MaxInst : CleanupDirect(i)

ProviderSpec == Init /\ [][ProviderNext]_vars

\* The log reader of one terminal, with concurrent callers and a log that is
\* appended to and truncated (the terminal is not destroyed meanwhile).
ReaderNext ==
    \/ \E r \in Readers : ReadBegin(r)
    \/ \E r \in Readers : LockCreate(r)
    \/ \E r \in Readers : LockReturn(r)
    \/ \E r \in Readers : LockAcquire(r)
    \/ \E r \in Readers : GetPosition(r)
    \/ \E r \in Readers : FileSize(r)
    \/ \E r \in Readers : ReadChunk(r)
    \/ \E r \in Readers : SetPosition(r)
    \/ \E r \in Readers : UpdateBuffer(r)
    \/ \E r \in Readers : AppendLine(r)
    \/ \E r \in Readers : CheckPattern(r)
    \/ \E r \in Readers : BufferedContent(r)
    \/ \E r \in Readers : SyncReturns(r)
    \/ LogCreated
    \/ \E k \in {"PROMPT", "TEXT"} : LogAppended(k)
    \/ \E n \in 0..(2 * MaxGrow) : LogTruncated(n)

ReaderSpec == Init /\ [][ReaderNext]_vars

\* The reader with every public call, made by two threads, on a log written
\* a character at a time.
SyncInit ==
    SchedulerInit /\ RegistryEmpty /\ SyncReader /\ ProbeEmpty /\ CliEmpty

SyncNext ==
    \/ LogCreated
    \/ \E c \in LogChars : LogWritten(c)
    \/ LogRewritten
    \/ \E r \in Readers : SyncCall(r)
    \/ \E r \in Readers : ReadCall(r)
    \/ \E r \in Readers : SyncStep(r)
    \/ \E r \in Readers : ResetCall(r)
    \/ \E r \in Readers : ResetClear(r)
    \/ \E r \in Readers : ClearAllCall(r)
    \/ \E r \in Readers : ResetGlobalReaderCall(r)
    \/ \E r \in Readers : ClearAllBuffers(r)
    \/ \E r \in Readers : DropGlobalReader(r)
    \/ TrackerClearAll
    \/ GetBufferedContentCall
    \/ \E pattern \in {"", SyncPattern} : MatchesIdlePatternCall(pattern)

SyncSpec == SyncInit /\ [][SyncNext]_vars

\* A reader constructed with O1LogReader(buffer_lines=n), nothing fed yet.
BufferInit ==
    /\ SchedulerInit /\ RegistryEmpty /\ ReaderEmpty /\ ProbeEmpty /\ CliEmpty
    /\ \E n \in 0..MaxCap : fed = [cap |-> n, lines |-> <<>>]

\* A reader of some capacity that is fed contents.
BufferNext ==
    \/ \E r \in Readers, content \in Chunks : UpdateBufferCall(r, content)
    \/ \E r \in Readers : FeedLine(r)

BufferSpec == BufferInit /\ [][BufferNext]_vars

\* The three parsers over every short screen.
ProbeInit == SchedulerInit /\ ProbeObjects /\ ReaderEmpty /\ ExtrasEmpty

StatusNext ==
    \/ \E k \in ScreenKinds, fresh \in BOOLEAN : ScreenOutput(k, fresh, MaxLines)
    \/ \E i \in 1..3 : GetStatusCall(i, 0)
    \/ \E i \in 1..3 : ExtractCall(i)

StatusSpec == ProbeInit /\ [][StatusNext]_vars

\* The codex parser over screens of codex lines, short or longer than the
\* tail it examines.
CodexNext ==
    \/ \E k \in CodexKinds, fresh \in BOOLEAN :
          ScreenOutput(k, fresh, MaxCodexLines)
    \/ ScreenfulOutput
    \/ GetStatusCall(1, 0)

CodexSpec == ProbeInit /\ [][CodexNext]_vars

\* get_status calls on provider objects that are initialized and cleaned up
\* while the screen changes.
FrameNext ==
    \/ \E k \in FrameKinds, fresh \in BOOLEAN :
          ScreenOutput(k, fresh, MaxFrameLines)
    \/ ScreenfulOutput
    \/ \E i \in 1..3 : InitializeBegin(i)
    \/ \E i \in 1..3 : InitializeShell(i, TRUE)
    \/ \E i \in 1..3, idle_ok \in BOOLEAN : InitializeEnd(i, idle_ok, FALSE)
    \/ \E i \in 1..3 : CleanupDirect(i)
    \/ \E i \in 1..3, tail_lines \in TailArgs : GetStatusCall(i, tail_lines)
    \/ \E i \in 1..3 : ExitCliCall(i)

FrameSpec == ProbeInit /\ [][FrameNext]_vars

\* Installs and launches from the command line.  A context file may be
\* there before any install, without a provider in its frontmatter.
LaunchInit ==
    /\ SchedulerInit /\ RegistryEmpty /\ ReaderEmpty /\ FedEmpty /\ ProbeEmpty
    /\ \E old \in SUBSET Profiles :
          cli = [context |-> [a \in Profiles |->
                               IF a \in old
                               THEN [exists |-> TRUE, provider |-> ""]
                               ELSE MissingFile],
                 installed |-> [a \in Profiles |-> ""],
                 launch |-> NoLaunch]

LaunchNext ==
    \/ \E a \in Profiles, option \in InstallOptions : InstallCall(a, option)
    \/ \E a \in Profiles, option \in LaunchOptions : LaunchCall(a, option)

LaunchSpec == LaunchInit /\ [][LaunchNext]_vars

\* ------------------------------------------------------------------ claims
Resolved == {"DELIVERED", "FAILED"}
Sending == {"send", "mark_delivered", "mark_failed"}

\* Thread h performs the send_input call in this step.
SendsNow(h) == handlers[h].pc = "send" /\ handlers'[h].pc # "send"

\* C1: for every inbox message, under every interleaving of the log-change
\* handlers of its recipient, send_input is invoked with its body at most
\* once.
C1_AtMostOneSend == \A m \in DOMAIN sent : sent[m] <= 1

\* C2: a message whose status is DELIVERED or FAILED keeps that status in
\* every later state; the only moves are PENDING -> DELIVERED and
\* PENDING -> FAILED.
C2_ResolvedIsFinal ==
    [][\A m \in DOMAIN msgs :
          /\ msgs[m].status \in Resolved => msgs'[m].status = msgs[m].status
          /\ msgs'[m].status \in Resolved \cup {"PENDING"}
          /\ msgs'[m].receiver = msgs[m].receiver]_vars

\* C2 witness: a thread whose send_input raised is about to write FAILED for
\* a message another thread has already marked DELIVERED.
C2_Witness ==
    \E h \in Handlers :
        /\ handlers[h].pc = "mark_failed"
        /\ msgs[handlers[h].msg].status = "DELIVERED"

Deliverable(t) ==
    /\ ~get_provider(providers, t).raised
    /\ ~get_status(t, INBOX_SERVICE_TAIL_LINES).raised
    /\ get_status(t, INBOX_SERVICE_TAIL_LINES).status \in ReadyStatuses

\* A modification report for the log of m's recipient is waiting for a
\* watcher thread while m is the recipient's oldest PENDING message.
EventPending(m) ==
    /\ m \in DOMAIN msgs
    /\ events[msgs[m].receiver]
    /\ get_pending_messages(msgs, msgs[m].receiver) = <<m>>

\* send_input returned for m and both status writes of that callback raised:
\* m is still PENDING and no thread is at its DELIVERED write.
WritesFailed(m) ==
    /\ m \in acked
    /\ msgs[m].status = "PENDING"
    /\ \A h \in Handlers :
          ~(handlers[h].pc = "mark_delivered" /\ handlers[h].msg = m)

C4_ReadyAtSend ==
    [][\A h \in Handlers :
          SendsNow(h) =>
              LET st == get_status(handlers[h].tid, INBOX_SERVICE_TAIL_LINES)
              IN ~st.raised /\ st.status \in {"IDLE", "COMPLETED"}]_vars

\* C4 (amended): a callback goes on to send_input only when the get_status
\* call it made just before, on the scrollback of that moment, returned IDLE
\* or COMPLETED; after PROCESSING, WAITING_USER_ANSWER or ERROR it sends
\* nothing.
C4_CheckedReadyBeforeSend ==
    [][\A h \in Handlers :
          (handlers[h].pc = "status" /\ handlers'[h].pc \in Sending) =>
              LET st == get_status(handlers[h].tid, INBOX_SERVICE_TAIL_LINES)
              IN ~st.raised /\ st.status \in {"IDLE", "COMPLETED"}]_vars

\* C4 witness: send_input has been called, and the recipient's scrollback has
\* since moved on to a status that is not ready.
C4_Witness ==
    \E h \in Handlers :
        /\ handlers[h].pc = "mark_delivered"
        /\ get_status(handlers[h].tid, INBOX_SERVICE_TAIL_LINES).status
               \in {"PROCESSING", "WAITING_USER_ANSWER"}

\* C5: messages of one recipient are sent in created-at order: no send_input
\* for a message while an older one of the recipient is PENDING, and no
\* send_input for a message after one for a younger message of the recipient.
C5_FifoSends ==
    [][\A m \in DOMAIN sent :
          sent'[m] > sent[m] =>
              \A n \in DOMAIN msgs :
                  msgs[n].receiver = msgs[m].receiver =>
                      /\ n < m => msgs[n].status # "PENDING"
                      /\ n > m => sent[n] = 0]_vars

\* C6: handling one log-change event of recipient r changes the status of at
\* most one message; that message is the oldest PENDING message of r; the
\* change ends the event's callback, so at most one message goes
\* PENDING -> DELIVERED per event; messages of other recipients are unchanged.
C6_OneMessagePerEvent ==
    [][\A m \in DOMAIN msgs :
          msgs'[m].status # msgs[m].status =>
              /\ \A n \in DOMAIN msgs \ {m} : msgs'[n] = msgs[n]
              /\ get_pending_messages(msgs, msgs[m].receiver) = <<m>>
              /\ \E h \in Handlers :
                    /\ handlers[h].pc \in {"mark_delivered", "mark_failed"}
                    /\ handlers[h].tid = msgs[m].receiver
                    /\ handlers[h].msg = m
                    /\ handlers'[h].pc = "idle"
                    /\ \A g \in Handlers \ {h} : handlers'[g] = handlers[g]]_vars

\* C6 witness: an event's callback delivered the one message of its
\* recipient and ended, and the older message of another recipient is still
\* PENDING.
C6_Witness ==
    /\ \E m, n \in DOMAIN msgs :
          /\ m < n
          /\ msgs[m].receiver # msgs[n].receiver
          /\ msgs[m].status = "PENDING"
          /\ msgs[n].status = "DELIVERED"
          /\ sent[n] = 1
    /\ \A h \in Handlers : handlers[h].pc = "idle"

\* C7: with no PENDING message for the recipient, handling a log-change event
\* is a no-op: no send_input, no status change, and the reader's positions
\* and buffers and the provider map stay as they are.
C7_NoPendingIsNoOp ==
    [][\A t \in TIDs :
          (events[t] /\ ~events'[t] /\ PendingIds(msgs, t) = {}) =>
              UNCHANGED <<msgs, sent, pos, buf, providers, handlers>>]_vars

\* C7 witness: the recipient's only message was delivered, its log has grown
\* since, and the event of that growth has been handled: the reader's
\* position is still behind the end of the file.
C7_Witness ==
    \E t \in TIDs :
        /\ ~events[t]
        /\ \A h \in Handlers : handlers[h].pc = "idle"
        /\ PendingIds(msgs, t) = {}
        /\ \E m \in DOMAIN msgs :
              msgs[m].receiver = t /\ msgs[m].status = "DELIVERED"
        /\ life[t] = "ready"
        /\ get_position(pos, t) < ByteSize(logfile[t].data)

\* C8: if send_input raises during the delivery of a message, the message is
\* marked FAILED and the exception does not escape the callback.
C8_RaiseMarksFailed ==
    [][\A h \in Handlers :
          (handlers[h].pc = "mark_failed" /\ handlers'[h].pc # "mark_failed") =>
              /\ msgs'[handlers[h].msg].status = "FAILED"
              /\ handlers'[h].pc = "idle"]_vars

\* C9 (as stated): once destroy_terminal has cleaned up the provider and
\* removed the metadata of a terminal, no send_input is invoked for it and
\* the messages addressed to it keep their status.
C9_NothingAfterDestroy ==
    [][\A t \in TIDs :
          Destroyed(t) =>
              \A m \in DOMAIN msgs :
                  msgs[m].receiver = t =>
                      /\ sent'[m] = sent[m]
                      /\ msgs'[m].status = msgs[m].status]_vars

\* C9 (amended): a log-change event whose handling begins after
\* destroy_terminal has cleaned up the provider and removed the metadata
\* never comes to a send_input and changes no message status.
C9_LateEventsSendNothing ==
    \A h \in Handlers :
        handlers[h].began = "destroyed" => handlers[h].pc # "send"

\* C9 witness: a callback that began after the destroy found the idle pattern
\* in the log (through a provider that a concurrent callback had put back
\* into the map) and is about to ask for the status.
C9_Witness ==
    \E h \in Handlers :
        /\ handlers[h].began = "destroyed"
        /\ handlers[h].pc = "deliver"
        /\ PendingIds(msgs, handlers[h].tid) # {}

\* C10: for a terminal whose provider is not initialized because initialize()
\* timed out, and that has neither been initialized since nor been deleted,
\* the scheduler issues no send_input: no callback that began after the
\* timeout calls send_input while the terminal is still in that state.
C10_NoSendAfterInitTimeout ==
    [][\A h \in Handlers :
          (SendsNow(h) /\ handlers[h].began = "init_timed_out") =>
              ~InitTimedOut(handlers[h].tid)]_vars

\* ------------------------------------------------------- provider registry
\* The instances constructed for id t that were put in the map and not
\* removed by cleanup_provider.
Inserted(t) ==
    {i \in DOMAIN instances :
        instances[i].tid = t /\ instances[i].place = "inserted"}

\* Caller c ends its call in this step.
Returns(c) == callers[c].pc # "done" /\ callers'[c].pc = "done"

\* C11: concurrent get_provider(id) calls for the same uncached, stored id
\* produce exactly one provider instance: only one instance is ever
\* constructed and inserted for the id, and every caller receives it.
C11_OneInstancePerId ==
    /\ \A t \in TIDs : Cardinality(Inserted(t)) <= 1
    /\ \A c \in Callers :
          (callers[c].pc = "done" /\ callers[c].ret.inst # 0) =>
              instances[callers[c].ret.inst].place = "removed"
                  \/ registry[callers[c].tid] = callers[c].ret.inst

\* C12: from the creation of an id's provider until cleanup_provider(id) the
\* map holds one and the same instance for the id and every get_provider(id)
\* returns it; cleanup_provider(id) leaves no entry for the id, and the
\* removed instance has initialized = false.
C12_SameInstanceUntilCleanup ==
    [][\A t \in TIDs :
          /\ registry[t] # 0 => registry'[t] \in {registry[t], 0}
          /\ \A c \in Callers :
                (registry[t] # 0 /\ Returns(c) /\ callers'[c].tid = t
                     /\ callers'[c].ret.err = "") =>
                    callers'[c].ret.inst = registry[t]
          /\ (registry[t] # 0 /\ registry'[t] = 0) =>
                /\ ~instances'[registry[t]].initialized
                /\ instances'[registry[t]].place = "removed"
          /\ \A i \in DOMAIN instances :
                instances[i].place = "removed" => ~instances[i].initialized
      ]_vars

\* C13: get_provider(id) for an id that is neither in the map nor in the
\* store fails with the not-found error, and a get_provider or
\* create_provider call that fails (unknown terminal, unknown kind, missing
\* agent profile) leaves the map and the instances exactly as they were.
C13_FailedCallKeepsMap ==
    [][\A c \in Callers :
          /\ (callers[c].pc = "miss" /\ callers'[c] # callers[c]
                  /\ rows[callers[c].tid] = NoRow) =>
                /\ callers'[c].pc = "done"
                /\ callers'[c].ret =
                       [err |-> "ValueError: not found in database", inst |-> 0]
          /\ (Returns(c) /\ callers'[c].ret.err # "") =>
                /\ registry' = registry
                /\ instances' = instances
                /\ callers'[c].ret.inst = 0
      ]_vars

\* An id is in the map while one call has failed for an unknown terminal and
\* another in create_provider (unknown kind or missing profile).
C13_Witness ==
    /\ \E t \in TIDs : registry[t] # 0
    /\ \E c, d \in Callers :
          /\ callers[c].pc = "done"
          /\ callers[c].ret.err = "ValueError: not found in database"
          /\ callers[d].pc = "done"
          /\ callers[d].ret.err \in {"ValueError: Unknown provider type",
                                     "ValueError: requires agent_profile"}

\* C14: for a terminal stored with any of the six provider kinds, the first
\* get_provider(id) after a restart constructs a provider of the stored kind
\* with the stored session, window and profile and inserts it, and sends
\* nothing to the multiplexer.
C14_RehydratesStoredKind ==
    [][\A c \in Callers :
          (callers[c].pc = "create" /\ callers'[c].pc = "done") =>
              LET row == callers[c].row
                  n == callers'[c].ret.inst
              IN /\ callers'[c].ret.err = ""
                 /\ n \in DOMAIN instances' \ DOMAIN instances
                 /\ registry'[callers[c].tid] = n
                 /\ instances'[n] =
                        NewProvider(row.provider, callers[c].tid,
                                    row.tmux_session, row.tmux_window,
                                    row.agent_profile, "inserted")
                 /\ ~instances'[n].keys_sent
      ]_vars

\* C15: for codex, droid and open_autoglm, when the shell wait or the wait
\* for IDLE runs out, initialize() raises a timeout error and a flag that was
\* false stays false; the flag becomes true only in the step in which an
\* initialize() call returns true.
C15_TimeoutKeepsUninitialized ==
    [][\A i \in DOMAIN instances :
          /\ (/\ instances[i].cause \in {"shell_wait", "waiting"}
              /\ instances'[i].cause \in {"shell", "idle"}) =>
                /\ instances'[i].raised = "TimeoutError"
                /\ ~instances[i].initialized => ~instances'[i].initialized
          /\ (~instances[i].initialized /\ instances'[i].initialized) =>
                /\ instances[i].cause = "waiting"
                /\ instances'[i].cause = "ok"
                /\ instances'[i].raised = "none"
      ]_vars

\* --------------------------------------------------------------- log reader
\* Thread r performs the step that leaves program point p.
Leaves(r, p) == readers[r].pc = p /\ readers'[r].pc # p

\* The buffer that holds the lines of `content` in their order.
BufferOf(content) == AppendLines(<<>>, split(content), DefaultBufferLines)

\* The lines buffered for id t.
Buffered(t) == IF t \in DOMAIN rbuf THEN rbuf[t] ELSE <<>>

\* The part of the log before the recorded position.
ReadSoFar ==
    SubSeq(rfile.data, 1, CharsBefore(rfile.data, get_position(rpos, RT)))

\* C16: pos[id] never decreases across read_new_content calls unless the
\* call detected a truncation (or the reader was reset), and the position
\* stored by a read that returns content is at most the size of the log file
\* it read.
C16_PositionMonotonic ==
    [][/\ get_position(rpos', RT) < get_position(rpos, RT) =>
             \E r \in Readers : Leaves(r, "setpos") /\ readers[r].trunc
       /\ \A r \in Readers :
             /\ (Leaves(r, "read") /\ readers'[r].content # <<>>) =>
                   readers'[r].new_pos <= ByteSize(rfile.data)
             /\ Leaves(r, "setpos") =>
                   get_position(rpos', RT) = readers[r].new_pos
      ]_vars

\* C17: when the log was truncated below the recorded position, the next
\* read_new_content returns the whole current file and leaves pos[id] at the
\* end of the file.
C17_TruncationRereadsFile ==
    [][\A r \in Readers :
          /\ (Leaves(r, "size") /\ readers[r].stored > ByteSize(rfile.data)) =>
                /\ readers'[r].trunc
                /\ readers'[r].stored = 0
          /\ (Leaves(r, "read") /\ readers[r].trunc) =>
                /\ readers'[r].pc = "setpos"
                /\ readers'[r].content = rfile.data
                /\ readers'[r].new_pos = ByteSize(rfile.data)
          /\ (Leaves(r, "setpos") /\ readers[r].trunc) =>
                get_position(rpos', RT) = readers[r].new_pos
      ]_vars

\* A read found the file shorter than the recorded position and read it from
\* the start: it holds the whole file, which is not empty.
C17_Witness ==
    \E r \in Readers :
        /\ readers[r].pc = "setpos"
        /\ readers[r].trunc
        /\ readers[r].content # <<>>
        /\ readers[r].content = rfile.data
        /\ readers[r].new_pos = ByteSize(rfile.data)
        /\ get_position(rpos, RT) > ByteSize(rfile.data)

\* C18: a sync_and_check call that found no growth of the log returns none;
\* a call that read a new line matching the idle pattern returns content.
C18_NoGrowthReturnsNone ==
    [][\A r \in Readers :
          Leaves(r, "check") =>
              /\ readers[r].content = <<>> => ~readers'[r].found
              /\ (\E i \in DOMAIN readers[r].content :
                     readers[r].content[i] = CodexIdlePatternLog)
                    => readers'[r].found
      ]_vars

\* C19: for a log that is only appended to, the strings returned by the
\* read_new_content calls, concatenated, are the file content up to pos[id]
\* (nothing twice, nothing skipped), and a read without growth returns the
\* empty string and leaves pos[id] as it was.
C19_ReadsConcatenateToFile ==
    [][/\ (~rhist.disturbed /\ \A r \in Readers : readers[r].pc # "setpos") =>
             rhist.returned = ReadSoFar
       /\ \A r \in Readers :
             (/\ Leaves(r, "read")
              /\ ~rhist.disturbed
              /\ get_position(rpos, RT) = ByteSize(rfile.data)) =>
                 /\ readers'[r].content = <<>>
                 /\ readers'[r].new_pos = get_position(rpos, RT)
      ]_vars

\* C20: the calls for one terminal id behave as if executed one after
\* another: at most one thread is in the read critical section, and once
\* every call has returned the buffer holds the lines read so far in the
\* order of the log, each once.
C20_ReadsSerialized ==
    /\ Cardinality({r \in Readers :
                        readers[r].pc \in {"getpos", "size", "read", "setpos"}}) <= 1
    /\ (~rhist.disturbed /\ \A r \in Readers : readers[r].pc = "idle") =>
          Buffered(RT) = BufferOf(ReadSoFar)

\* ---------------------------------------------------------- buffer capacity
\* C21: after any sequence of update_buffer calls on a buffer of capacity N,
\* the buffer holds the last min(N, k) of the k non-empty lines fed so far,
\* in their order, and never more than N lines.
C21_BufferKeepsLastLines ==
    /\ Buffered(RT) = LastN(fed.lines, fed.cap)
    /\ Len(Buffered(RT)) <= fed.cap

\* A buffer of capacity 3 was fed 5 lines and holds 3.
C21_Witness ==
    /\ fed.cap = 3
    /\ Len(fed.lines) = 5
    /\ Len(Buffered(RT)) = 3
    /\ Buffered(RT) # SubSeq(fed.lines, 1, 3)

\* ------------------------------------------------------------ launch claim
\* C28: a launch without --provider posts the create-session request with
\* the provider installed for the profile, or with the default provider if
\* none was installed; a --provider of the allowed set is posted as given;
\* a provider outside the allowed set aborts and nothing is posted.
C28_LaunchProviderSelection ==
    cli.launch.ran =>
        LET l == cli.launch
            persisted == cli.installed[l.profile]
        IN /\ l.posted = ~l.aborted
           /\ (l.explicit # "" /\ l.explicit \in PROVIDERS) =>
                 l.posted /\ l.provider = l.explicit
           /\ (l.explicit # "" /\ l.explicit \notin PROVIDERS) => l.aborted
           /\ (l.explicit = "" /\ persisted # "") =>
                 l.posted /\ l.provider = persisted
           /\ (l.explicit = "" /\ persisted = "") =>
                 l.posted /\ l.provider = DEFAULT_PROVIDER

\* A launch with --provider droid of a profile installed with codex.
C28_Witness ==
    /\ cli.launch.posted
    /\ cli.launch.explicit = "droid"
    /\ cli.installed[cli.launch.profile] = "codex"
    /\ cli.launch.provider = "droid"

\* ---------------------------------------------------------- provider claims
\* The screen of RT without colour codes, and the part codex searches for
\* fatal markers and approval prompts.
Screen == clean(scrollback[RT])

ScreenTail == LastN(splitlines(Screen), StatusTailLines)

\* get_status has just returned to an instance of this kind.
Asked(kind) ==
    /\ probe.op = "get_status"
    /\ instances[probe.inst].kind = kind

\* The last line of the text that is not blank is a prompt.
EndsWithPrompt(text) ==
    LET nb == {i \in DOMAIN text : text[i] # "BLANK"} IN
    nb # {} /\ IsPromptLine(text[Max(nb)])

\* No fatal marker and no approval prompt in the tail.
TailQuiet == \A i \in DOMAIN ScreenTail : ScreenTail[i] \notin {"ERR", "APPROVE"}

\* An assistant marker follows the most recent user line.
ReplyAfterLastUser(text) ==
    \E u \in DOMAIN text :
        /\ IsUserLine(text[u])
        /\ \A v \in DOMAIN text : IsUserLine(text[v]) => v <= u
        /\ \E a \in DOMAIN text : a > u /\ IsAssistantLine(text[a])

\* A get_status call is made in this step.
GetsStatus == probe' # probe /\ probe'.op = "get_status"

\* The step changes no provider object (initialized flag included), leaves
\* the provider map, the log reader state, the message store and the screen
\* alone and sends no keys.
FrameKept ==
    /\ instances' = instances
    /\ registry' = registry
    /\ rvars' = rvars
    /\ msgs' = msgs
    /\ sent' = sent
    /\ scrollback' = scrollback

C23_CodexCompletedIffReply ==
    (Asked("codex") /\ EndsWithPrompt(Screen) /\ TailQuiet) =>
        /\ probe.status \in {"COMPLETED", "IDLE"}
        /\ probe.status = "COMPLETED" <=> ReplyAfterLastUser(Screen)

\* IDLE at a prompt although an older reply is on the screen: the user line
\* that follows it has no reply yet.
C23_Witness ==
    /\ Asked("codex")
    /\ EndsWithPrompt(Screen)
    /\ TailQuiet
    /\ probe.status = "IDLE"
    /\ \E a, u \in DOMAIN Screen :
          a < u /\ Screen[a] = "ASSIST" /\ Screen[u] = "USER"

\* C24: a non-empty codex screen that does not end with a prompt and has a
\* quiet tail is PROCESSING, whether or not an older prompt is on it.
C24_CodexProcessingWithoutEndPrompt ==
    (Asked("codex") /\ ~no_output(scrollback[RT]) /\ ~EndsWithPrompt(Screen)
        /\ TailQuiet) =>
        probe.status = "PROCESSING"

\* PROCESSING with a stale prompt on the screen.
C24_Witness ==
    /\ Asked("codex")
    /\ probe.status = "PROCESSING"
    /\ \E i \in DOMAIN Screen : IsPromptLine(Screen[i])
    /\ \E i \in DOMAIN Screen : Screen[i] = "USER"

\* C25: for every kind of provider, a screen on which the word "failed"
\* occurs in ordinary output and no line begins with a fatal marker is not
\* reported as ERROR.
C25_FailedWordIsNotError ==
    (/\ probe.op = "get_status"
     /\ \E i \in DOMAIN scrollback[RT] : scrollback[RT][i] = "FAILED"
     /\ \A i \in DOMAIN scrollback[RT] : scrollback[RT][i] # "ERR") =>
        probe.status # "ERROR"

\* C26: droid get_status is ERROR on an empty screen and otherwise counts
\* the prompt lines of the normalized text: none PROCESSING, one IDLE, two
\* or more COMPLETED.
C26_DroidMultiPromptRule ==
    Asked("droid") =>
        LET n == Cardinality({i \in DOMAIN scrollback[RT] :
                     droid_normalize_line(scrollback[RT][i]) = "GT"})
        IN probe.status = IF no_output(scrollback[RT]) THEN "ERROR"
                          ELSE IF n = 0 THEN "PROCESSING"
                          ELSE IF n = 1 THEN "IDLE"
                          ELSE "COMPLETED"

\* IDLE with exactly one prompt, which only normalization shows.
C26_Witness ==
    /\ Asked("droid")
    /\ probe.status = "IDLE"
    /\ Len(scrollback[RT]) = 3
    /\ \E i \in DOMAIN scrollback[RT] : scrollback[RT][i] = "BOX_GT"

\* C27: whenever codex or droid get_status says COMPLETED for a screen,
\* extract_last_message_from_script on that screen raises nothing and
\* returns a text that is not empty.
C27_CompletedHasMessage ==
    (/\ probe.op = "extract"
     /\ provider_get_status(instances[probe.inst].kind, scrollback[RT])
            = "COMPLETED") =>
        /\ probe.status = ""
        /\ probe.text # <<>>

\* C29: codex get_status takes the first rule that matches: a fatal marker
\* in the tail is ERROR whatever else is there, an approval prompt in the
\* tail without a fatal marker is WAITING_USER_ANSWER, and only a quiet
\* tail can give COMPLETED, IDLE or PROCESSING.
C29_CodexPriorityOrder ==
    Asked("codex") =>
        LET fatal == \E i \in DOMAIN ScreenTail : ScreenTail[i] = "ERR"
            approval == \E i \in DOMAIN ScreenTail : ScreenTail[i] = "APPROVE"
        IN /\ fatal => probe.status = "ERROR"
           /\ (approval /\ ~fatal) => probe.status = "WAITING_USER_ANSWER"
           /\ probe.status \in {"COMPLETED", "IDLE", "PROCESSING"} =>
                 ~fatal /\ ~approval

\* WAITING_USER_ANSWER on a screen that ends with a prompt and shows a
\* reply after the last user line.
C29_Witness ==
    /\ Asked("codex")
    /\ probe.status = "WAITING_USER_ANSWER"
    /\ EndsWithPrompt(Screen)
    /\ ReplyAfterLastUser(Screen)

\* C30: codex get_status is a function of the last 25 lines of the screen:
\* it returns what it returns for those lines alone.
C30_CodexStatusFromTailOnly ==
    Asked("codex") =>
        probe.status = codex_get_status(LastN(scrollback[RT], StatusTailLines))

\* An extract call has just returned to an instance of this kind.
Extracted(kind) ==
    /\ probe.op = "extract"
    /\ instances[probe.inst].kind = kind

\* The prompt lines of the droid screen, after normalization.
DroidPromptLines ==
    {i \in DOMAIN scrollback[RT] :
        droid_normalize_line(scrollback[RT][i]) = "GT"}

\* C31: what codex extract_last_message_from_script returns is the trimmed
\* text from the end of the last assistant marker up to the first prompt
\* line after it, or to the end of the text when no prompt follows; nothing
\* behind that prompt and nothing before the marker is in it.
C31_CodexReplyEndsAtFirstPrompt ==
    (/\ Extracted("codex")
     /\ probe.status = ""
     /\ \E i \in DOMAIN Screen : IsAssistantLine(Screen[i])) =>
        LET p == Max({i \in DOMAIN Screen : IsAssistantLine(Screen[i])})
            rest == IF Screen[p] = "ASSIST" THEN "REPLY" ELSE "BLANK"
            after == <<rest>> \o SubSeq(Screen, p + 1, Len(Screen))
            prompts == {i \in DOMAIN after : IsPromptLine(after[i])}
            end == IF prompts = {} THEN Len(after) ELSE Min(prompts) - 1
        IN probe.text = Strip(SubSeq(after, 1, end))

\* C32: extraction never returns an empty text.  Codex without an assistant
\* marker and droid with fewer than two prompt lines fail with "no response
\* found"; a delimited text of blank lines only fails with "empty response".
C32_ExtractionNeverEmpty ==
    probe.op = "extract" =>
        /\ probe.status = "" =>
              /\ probe.text # <<>>
              /\ \E i \in DOMAIN probe.text : probe.text[i] # "BLANK"
        /\ (Extracted("codex") /\ \A i \in DOMAIN Screen :
                                      ~IsAssistantLine(Screen[i])) =>
              probe.status = "ValueError: No Codex response found"
        /\ (Extracted("droid") /\ Cardinality(DroidPromptLines) < 2) =>
              probe.status = "ValueError: No complete Droid response found"
        /\ (Extracted("droid") /\ Cardinality(DroidPromptLines) >= 2) =>
              LET last == Max(DroidPromptLines)
                  prev == Max(DroidPromptLines \ {last})
                  blank == \A i \in (prev + 1)..(last - 1) :
                              droid_normalize_line(scrollback[RT][i]) = "BLANK"
              IN (probe.status = "ValueError: Empty Droid response") <=> blank
        /\ (Extracted("codex") /\ probe.status # "") =>
              probe.status \in {"ValueError: No Codex response found",
                                "ValueError: Empty Codex response"}

\* Droid extraction failed with "empty response" on a screen whose two
\* prompts have only a frame rule between them.
C32_Witness ==
    /\ Extracted("droid")
    /\ probe.status = "ValueError: Empty Droid response"
    /\ Len(scrollback[RT]) = 3
    /\ scrollback[RT][2] = "BOX_RULE"

\* C40: once the droid screen holds two or more prompt lines, get_status
\* without a tail limit is COMPLETED on every extension of that screen,
\* output after the last prompt included: no output that reaches the screen
\* takes the status away from COMPLETED.
C40_DroidCompletedIsSticky ==
    [][(Cardinality(DroidPromptLines) >= 2 /\ scrollback'[RT] # scrollback[RT]) =>
          provider_get_status("droid", history_tail(scrollback'[RT], 0))
              = "COMPLETED"
      ]_vars

\* C34: DroidProvider.exit_cli() returns the exit command "/exit".
C34_DroidExitCommand ==
    (probe.op = "exit_cli" /\ instances[probe.inst].kind = "droid") =>
        probe.status = "/exit"

\* C35: once destroy_terminal(id) has completed its four steps, the provider
\* manager holds no instance for id, whatever log-change events and
\* get_provider(id) calls ran between the steps.
C35_DestroyedHasNoProvider ==
    \A t \in TIDs : life[t] = "destroyed" => providers[t] = NoProvider

\* C36: a message's status matches what was sent, for every outcome of
\* send_input and of the status write: DELIVERED only if a send_input call
\* for it returned successfully, FAILED only if none did.
C36_StatusMatchesSend ==
    \A m \in DOMAIN msgs :
        /\ msgs[m].status = "DELIVERED" => m \in acked
        /\ msgs[m].status = "FAILED" => m \notin acked

\* The part of a content that consists of complete lines: up to its last
\* newline.
CompletePart(content) ==
    LET ends == {i \in DOMAIN content : content[i] = NL}
    IN IF ends = {} THEN <<>> ELSE SubSeq(content, 1, Max(ends))

\* Does some line hold the pattern character.
HoldsPattern(lines, pattern) ==
    \E i \in DOMAIN lines : \E j \in DOMAIN lines[i] : lines[i][j] = pattern

\* C33: reset_terminal(id) sets pos[id] to 0 and empties buf[id], leaves
\* every other terminal's position and buffer as they were, and the next
\* read of id returns the whole current file.
C33_ResetForgetsOneTerminal ==
    [][\A r \in Readers :
          /\ (/\ readers[r].call = "reset"
              /\ ~readers[r].stale
              /\ readers'[r].pc = "idle") =>
                /\ get_position(rpos', RT) = 0
                /\ RT \in DOMAIN rbuf' => rbuf'[RT] = <<>>
          /\ (\/ readers[r].pc = "idle" /\ readers'[r].call = "reset"
              \/ readers[r].call = "reset" /\ readers'[r].pc = "idle") =>
                \A t \in TIDs \ {RT} :
                    /\ get_position(rpos', t) = get_position(rpos, t)
                    /\ t \in DOMAIN rbuf =>
                          t \in DOMAIN rbuf' /\ rbuf'[t] = rbuf[t]
          /\ (Leaves(r, "read") /\ ~readers[r].stale /\ probe.op = "reset") =>
                /\ readers'[r].pc = "setpos"
                /\ readers'[r].content = rfile.data
      ]_vars

\* C37: every entry of buf[id] is one complete line of the log: as long as
\* the log was only appended to and every content read was buffered, once
\* the calls have returned the buffer holds the last complete non-empty
\* lines of what was read, a line read in two rounds as one entry.
C37_BufferEntriesAreCompleteLines ==
    (/\ ~rhist.disturbed
     /\ \A r \in Readers : readers[r].pc = "idle"
     /\ RT \in DOMAIN rbuf) =>
        rbuf[RT] = LastN(NonEmptyLines(CompletePart(rhist.returned)), fed.cap)

\* C38: after the log was truncated and rewritten between two reads, the
\* next read returns the current file from offset 0, whatever its size.
C38_RewrittenLogReadFromStart ==
    [][\A r \in Readers :
          (Leaves(r, "read") /\ ~readers[r].stale /\ probe.op = "rewrite") =>
              /\ readers'[r].pc = "setpos"
              /\ readers'[r].content = rfile.data
      ]_vars

\* C39: sync_and_check(id, p) returns content exactly when p matches within
\* the last N non-empty lines read for id (N the reader's capacity).
C39_FoundIffPatternInLastLines ==
    (/\ probe.op = "sync"
     /\ ~rhist.disturbed
     /\ \A r \in Readers : readers[r].pc = "idle") =>
        (probe.status = "found" <=>
            HoldsPattern(LastN(NonEmptyLines(rhist.returned), fed.cap),
                         SyncPattern))

====
